---- MODULE Spec2Model ----
(***************************************************************************)
(* Detection engine of subscription-detector (internal/detector.go,        *)
(* internal/config.go): coverage analysis, status determination, the       *)
(* monthly-pattern and tolerance checks, the known-pattern matcher and the  *)
(* pattern detector.                                                        *)
(*                                                                          *)
(* Representation.                                                          *)
(*  - A time.Time of day precision is a record [year, month, day].          *)
(*  - A string is a sequence of one-character strings, so that ToLower and  *)
(*    the case-insensitive regex match are computed character by character. *)
(*  - A float64 amount is an integer (whole currency units).  A quotient    *)
(*    (average, tolerance ratio) is kept as numerator and denominator and   *)
(*    compared by cross-multiplication; the IEEE results of a division by   *)
(*    zero (+Inf, NaN) are kept as such.  With the small integers used here *)
(*    the float64 comparisons of the source agree with the exact ones.      *)
(***************************************************************************)
EXTENDS Integers, Sequences, FiniteSets, TLC

VARIABLES
    pc,              \* position of the operation under analysis
    transactions,    \* []Transaction handed to the operation
    tolerance,       \* tolerance fraction, in percent
    cfg,             \* *Config: a pointer to [Known |-> sequence of rules]
    completeMonths,  \* run(): completeMonths
    dateRange,       \* run(): dateRange
    knownSubs,       \* run(): knownSubs
    matchedTexts,    \* run(): matchedTexts
    regularTxs,      \* run(): regularTxs
    filtered,        \* run(): filtered
    subscriptions,   \* run(): subscriptions
    lastPayment,     \* DetermineStatus argument
    typicalDay,      \* DetermineStatus argument
    dataEndDate,     \* DetermineStatus argument
    status,          \* DetermineStatus result
    result           \* result of IsMonthlyPattern / AmountsWithinTolerance

vars == <<pc, transactions, tolerance, cfg, completeMonths, dateRange,
          knownSubs, matchedTexts, regularTxs, filtered, subscriptions,
          lastPayment, typicalDay, dataEndDate, status, result>>

Nil == "nil"

StatusActive == "active"

StatusStopped == "stopped"

(***************************************************************************)
(* Calendar arithmetic of package time.                                    *)
(***************************************************************************)
IsLeap(y) == y % 4 = 0 /\ (y % 100 # 0 \/ y % 400 = 0)

DaysIn(y, m) ==
    IF m = 2 THEN (IF IsLeap(y) THEN 29 ELSE 28)
    ELSE IF m \in {4, 6, 9, 11} THEN 30
    ELSE 31

RECURSIVE NormDay(_, _, _)
NormDay(y, m, d) ==
    IF d < 1
    THEN LET py == IF m = 1 THEN y - 1 ELSE y
             pm == IF m = 1 THEN 12 ELSE m - 1
         IN  NormDay(py, pm, d + DaysIn(py, pm))
    ELSE IF d > DaysIn(y, m)
    THEN LET ny == IF m = 12 THEN y + 1 ELSE y
             nm == IF m = 12 THEN 1 ELSE m + 1
         IN  NormDay(ny, nm, d - DaysIn(y, m))
    ELSE [year |-> y, month |-> m, day |-> d]

\* time.Date(y, m, d, 0, 0, 0, 0, time.UTC): month and day overflow normalised.
GoDate(y, m, d) ==
    LET m0 == m - 1
        yy == y + (m0 \div 12)
        mm == (m0 % 12) + 1
    IN  NormDay(yy, mm, d)

\* t.AddDate(years, months, days)
AddDate(t, years, months, days) ==
    GoDate(t.year + years, t.month + months, t.day + days)

\* t.Before(u)
Before(t, u) ==
    \/ t.year < u.year
    \/ t.year = u.year /\ t.month < u.month
    \/ t.year = u.year /\ t.month = u.month /\ t.day < u.day

\* t.After(u)
After(t, u) == Before(u, t)

\* t.Format("2006-01"): the year and the month of t, the day dropped.
FormatMonth(t) == <<t.year, t.month>>

\* The zero time.Time (January 1, year 1).
ZeroTime == [year |-> 1, month |-> 1, day |-> 1]

\* DateRange{}
ZeroDateRange == [Start |-> ZeroTime, End |-> ZeroTime]

(***************************************************************************)
(* AnalyzeDataCoverage                                                     *)
(***************************************************************************)
RECURSIVE ScanMinDate(_, _, _)
ScanMinDate(txs, i, minDate) ==
    IF i > Len(txs) THEN minDate
    ELSE ScanMinDate(txs, i + 1,
             IF Before(txs[i].Date, minDate) THEN txs[i].Date ELSE minDate)

RECURSIVE ScanMaxDate(_, _, _)
ScanMaxDate(txs, i, maxDate) ==
    IF i > Len(txs) THEN maxDate
    ELSE ScanMaxDate(txs, i + 1,
             IF After(txs[i].Date, maxDate) THEN txs[i].Date ELSE maxDate)

\* A mutant of LastDayOfMonth: February always has 28 days.
LastDayOfMonthNoLeap(current) ==
    IF current.month = 2 THEN 28 ELSE AddDate(current, 0, 1, -1).day

\* lastDayOfMonth := current.AddDate(0, 1, -1).Day()
LastDayOfMonth(current) == AddDate(current, 0, 1, -1).day

RECURSIVE CoverageLoop(_, _, _, _)
CoverageLoop(current, endMonth, maxDate, months) ==
    IF After(current, endMonth) THEN months
    ELSE LET monthKey == FormatMonth(current)
             lastDayOfMonth == LastDayOfMonth(current)
             next == IF Before(current, endMonth)
                         THEN Append(months, monthKey)
                     ELSE IF maxDate.day = lastDayOfMonth
                         THEN Append(months, monthKey)
                     ELSE months
         IN  CoverageLoop(AddDate(current, 0, 1, 0), endMonth, maxDate, next)

\* A mutant of AnalyzeDataCoverage: the empty list is not told apart, and the
\* month of the zero time is reported.
AnalyzeDataCoverageZeroMonth(txs) ==
    IF Len(txs) = 0
    THEN [months |-> <<FormatMonth(ZeroTime)>>, range |-> ZeroDateRange]
    ELSE LET minDate == ScanMinDate(txs, 1, txs[1].Date)
             maxDate == ScanMaxDate(txs, 1, txs[1].Date)
             current == GoDate(minDate.year, minDate.month, 1)
             endMonth == GoDate(maxDate.year, maxDate.month, 1)
         IN  [months |-> CoverageLoop(current, endMonth, maxDate, <<>>),
              range |-> [Start |-> minDate, End |-> maxDate]]

AnalyzeDataCoverage(txs) ==
    IF Len(txs) = 0
    THEN [months |-> <<>>, range |-> ZeroDateRange]
    ELSE LET minDate == ScanMinDate(txs, 1, txs[1].Date)
             maxDate == ScanMaxDate(txs, 1, txs[1].Date)
             current == GoDate(minDate.year, minDate.month, 1)
             endMonth == GoDate(maxDate.year, maxDate.month, 1)
         IN  [months |-> CoverageLoop(current, endMonth, maxDate, <<>>),
              range |-> [Start |-> minDate, End |-> maxDate]]

(***************************************************************************)
(* DetermineStatus                                                         *)
(***************************************************************************)
\* expectedDate.AddDate(0, 0, 5): the grace period, in days.
GraceDays == 5

\* A mutant of MonthsDiff: the year difference is dropped.
MonthsDiffNoYear(currentMonthStart, lastPaymentStart) ==
    currentMonthStart.month - lastPaymentStart.month

MonthsDiff(currentMonthStart, lastPaymentStart) ==
    (currentMonthStart.year - lastPaymentStart.year) * 12
        + (currentMonthStart.month - lastPaymentStart.month)

\* A mutant of SameMonthStart: the payment itself is compared with the first
\* day of the end month.
SameMonthStartRawPayment(lp, endDate) ==
    lp = GoDate(endDate.year, endDate.month, 1)

\* lastPaymentStart.Equal(currentMonthStart)
SameMonthStart(lp, endDate) ==
    GoDate(lp.year, lp.month, 1) = GoDate(endDate.year, endDate.month, 1)

\* A mutant of PastGracePeriod: the grace period end itself counts as past.
PastGracePeriodInclusive(endDate, gracePeriodEnd) ==
    ~Before(endDate, gracePeriodEnd)

\* dataEndDate.After(gracePeriodEnd)
PastGracePeriod(endDate, gracePeriodEnd) == After(endDate, gracePeriodEnd)

\* A mutant of DetermineStatus: the test of monthsDiff > 1 is left out.
DetermineStatusGraceOnly(lp, td, endDate) ==
    LET lastDayOfMonth == GoDate(endDate.year, endDate.month + 1, 0).day
        expectedDay == IF td > lastDayOfMonth THEN lastDayOfMonth ELSE td
        expectedDate == GoDate(endDate.year, endDate.month, expectedDay)
        gracePeriodEnd == AddDate(expectedDate, 0, 0, GraceDays)
    IN  IF SameMonthStart(lp, endDate) THEN StatusActive
        ELSE IF PastGracePeriod(endDate, gracePeriodEnd) THEN StatusStopped
        ELSE StatusActive

DetermineStatus(lp, td, endDate) ==
    LET lastPaymentStart == GoDate(lp.year, lp.month, 1)
        currentMonthStart == GoDate(endDate.year, endDate.month, 1)
        monthsDiff == MonthsDiff(currentMonthStart, lastPaymentStart)
        lastDayOfMonth == GoDate(endDate.year, endDate.month + 1, 0).day
        expectedDay == IF td > lastDayOfMonth THEN lastDayOfMonth ELSE td
        expectedDate == GoDate(endDate.year, endDate.month, expectedDay)
        gracePeriodEnd == AddDate(expectedDate, 0, 0, GraceDays)
    IN  IF SameMonthStart(lp, endDate) THEN StatusActive
        ELSE IF monthsDiff > 1 THEN StatusStopped
        ELSE IF PastGracePeriod(endDate, gracePeriodEnd) THEN StatusStopped
        ELSE StatusActive

(***************************************************************************)
(* FilterExpenses, IsMonthlyPattern, AmountsWithinTolerance                 *)
(***************************************************************************)
\* A mutant of IsExpense: a zero amount is an expense too.
IsExpenseOrZero(tx) == tx.Amount <= 0

IsExpense(tx) == tx.Amount < 0

FilterExpenses(txs) == SelectSeq(txs, IsExpense)

\* A mutant of MonthBucket: the bucket key is the month without the year.
MonthBucketNoYear(tx) == <<tx.Date.month>>

\* key := tx.Date.Format("2006-01")
MonthBucket(tx) == FormatMonth(tx.Date)

\* byMonth[key]++ for every transaction: the map after the first loop.
RECURSIVE CountByMonth(_, _, _)
CountByMonth(txs, i, byMonth) ==
    IF i > Len(txs) THEN byMonth
    ELSE LET key == MonthBucket(txs[i])
             count == IF key \in DOMAIN byMonth THEN byMonth[key] ELSE 0
         IN  CountByMonth(txs, i + 1,
                 [k \in DOMAIN byMonth \cup {key} |->
                     IF k = key THEN count + 1 ELSE byMonth[k]])

IsMonthlyPattern(txs) ==
    LET byMonth == CountByMonth(txs, 1, <<>>)
    IN  \A key \in DOMAIN byMonth : byMonth[key] = 1

\* math.Abs
Abs(x) == IF x < 0 THEN -x ELSE x

\* The float64 quotient n / d of two non-negative amounts: finite, or +Inf
\* (n > 0, d = 0), or NaN (0 / 0).
FloatDiv(n, d) ==
    IF d # 0 THEN [kind |-> "finite", num |-> n, den |-> d]
    ELSE IF n # 0 THEN [kind |-> "inf", num |-> n, den |-> d]
    ELSE [kind |-> "nan", num |-> n, den |-> d]

\* A mutant of ExceedsTolerance: a change equal to the tolerance is rejected.
ExceedsToleranceInclusive(diff, tol) ==
    CASE diff.kind = "finite" -> diff.num * 100 >= tol * diff.den
      [] diff.kind = "inf" -> TRUE
      [] diff.kind = "nan" -> FALSE

\* diff > tolerance, the tolerance given in percent; false for NaN.
ExceedsTolerance(diff, tol) ==
    CASE diff.kind = "finite" -> diff.num * 100 > tol * diff.den
      [] diff.kind = "inf" -> TRUE
      [] diff.kind = "nan" -> FALSE

RECURSIVE ToleranceLoop(_, _, _)
ToleranceLoop(txs, i, tol) ==
    IF i > Len(txs) THEN TRUE
    ELSE LET prev == Abs(txs[i - 1].Amount)
             curr == Abs(txs[i].Amount)
             diff == FloatDiv(Abs(curr - prev), prev)
         IN  IF ExceedsTolerance(diff, tol) THEN FALSE
             ELSE ToleranceLoop(txs, i + 1, tol)

AmountsWithinTolerance(txs, tol) ==
    IF Len(txs) < 2 THEN Len(txs) = 1
    ELSE ToleranceLoop(txs, 2, tol)

(***************************************************************************)
(* Statistics, on amounts that are whole numbers: their float64 sums are     *)
(* exact and the average is kept as the exact quotient.  The float64         *)
(* arithmetic on other amounts follows below.                                *)
(***************************************************************************)
RECURSIVE Gcd(_, _)
Gcd(a, b) == IF b = 0 THEN a ELSE Gcd(b, a % b)

\* The float64 value num / den (den > 0), in lowest terms.
Quotient(num, den) ==
    LET g == Gcd(Abs(num), den)
    IN  IF g = 0 THEN [num |-> 0, den |-> 1]
        ELSE [num |-> num \div g, den |-> den \div g]

RECURSIVE SumAmounts(_, _)
SumAmounts(txs, i) ==
    IF i > Len(txs) THEN 0 ELSE txs[i].Amount + SumAmounts(txs, i + 1)

CalculateAverageAmount(txs) ==
    IF Len(txs) = 0 THEN Quotient(0, 1)
    ELSE Quotient(SumAmounts(txs, 1), Len(txs))

RECURSIVE ScanMinAmount(_, _, _)
ScanMinAmount(txs, i, min) ==
    IF i > Len(txs) THEN min
    ELSE ScanMinAmount(txs, i + 1,
             IF Abs(txs[i].Amount) < min THEN Abs(txs[i].Amount) ELSE min)

RECURSIVE ScanMaxAmount(_, _, _)
ScanMaxAmount(txs, i, max) ==
    IF i > Len(txs) THEN max
    ELSE ScanMaxAmount(txs, i + 1,
             IF Abs(txs[i].Amount) > max THEN Abs(txs[i].Amount) ELSE max)

CalculateAmountRange(txs) ==
    IF Len(txs) = 0 THEN [min |-> 0, max |-> 0]
    ELSE [min |-> ScanMinAmount(txs, 2, Abs(txs[1].Amount)),
          max |-> ScanMaxAmount(txs, 2, Abs(txs[1].Amount))]

RECURSIVE SumDays(_, _)
SumDays(txs, i) ==
    IF i > Len(txs) THEN 0 ELSE txs[i].Date.day + SumDays(txs, i + 1)

CalculateTypicalDay(txs) ==
    IF Len(txs) = 0 THEN 0 ELSE SumDays(txs, 1) \div Len(txs)

(***************************************************************************)
(* float64 arithmetic at bit level, for amounts that are not whole numbers.  *)
(* A float64 is [neg, mant, exp]: mant is the 53-bit significand, most       *)
(* significant bit first and set, the value is mant * 2^exp; zero has the    *)
(* empty significand.  Results are rounded to nearest, ties to even.  An     *)
(* operation also reports whether it had to round (inexact).                 *)
(***************************************************************************)
F64Precision == 53

Zeros(n) == [i \in 1..n |-> 0]

HexDigitBits(d) == <<d \div 8, (d \div 4) % 2, (d \div 2) % 2, d % 2>>

RECURSIVE HexBits(_)
HexBits(digits) ==
    IF digits = <<>> THEN <<>>
    ELSE HexDigitBits(Head(digits)) \o HexBits(Tail(digits))

RECURSIVE StripZeros(_)
StripZeros(bits) ==
    IF bits = <<>> \/ bits[1] = 1 THEN bits ELSE StripZeros(Tail(bits))

\* The float64 with the significand given in hexadecimal digits.
F64(neg, digits, exp) ==
    [neg |-> neg, mant |-> StripZeros(HexBits(digits)), exp |-> exp]

F64Zero == [neg |-> FALSE, mant |-> <<>>, exp |-> 0]

\* bits with leading zeros up to length n.
PadTo(bits, n) == Zeros(n - Len(bits)) \o bits

\* The carry into position i of a + b, for numerals of one length: some
\* position below i generates a carry that all positions between pass on.
CarryInto(a, b, i) ==
    \E j \in (i + 1)..Len(a) :
        /\ a[j] + b[j] = 2
        /\ \A k \in (i + 1)..(j - 1) : a[k] + b[k] >= 1

\* a + b for numerals of one length.
AddAligned(a, b) ==
    (IF CarryInto(a, b, 0) THEN <<1>> ELSE <<>>) \o
    [i \in 1..Len(a) |->
        (a[i] + b[i] + (IF CarryInto(a, b, i) THEN 1 ELSE 0)) % 2]

\* a + b on binary numerals.
AddBits(a, b) ==
    IF Len(a) >= Len(b) THEN AddAligned(a, PadTo(b, Len(a)))
    ELSE AddAligned(PadTo(a, Len(b)), b)

\* Equal-length binary numerals: a < b.
BitsLess(a, b) ==
    \E i \in 1..Len(a) :
        a[i] < b[i] /\ \A j \in 1..(i - 1) : a[j] = b[j]

\* The numeral bits (first bit set) times 2^exp, plus a non-zero rest below
\* the last bit when sticky, rounded to 53 bits.
RoundBits(bits, exp, sticky) ==
    IF Len(bits) <= F64Precision
    THEN [mant |-> bits \o Zeros(F64Precision - Len(bits)),
          exp |-> exp - (F64Precision - Len(bits)),
          inexact |-> sticky]
    ELSE LET kept == SubSeq(bits, 1, F64Precision)
             guard == bits[F64Precision + 1]
             rest == sticky \/ \E i \in (F64Precision + 2)..Len(bits) : bits[i] = 1
             up == guard = 1 /\ (rest \/ kept[F64Precision] = 1)
             next == AddBits(kept, <<1>>)
         IN  [mant |-> IF up THEN SubSeq(next, 1, F64Precision) ELSE kept,
              exp |-> exp + (Len(bits) - F64Precision)
                          + (IF up /\ Len(next) > F64Precision THEN 1 ELSE 0),
              inexact |-> guard = 1 \/ rest]

\* x + y for operands of one sign, as the sum of expenses is: [val, inexact].
F64Add(x, y) ==
    IF x.mant = <<>> THEN [val |-> y, inexact |-> FALSE]
    ELSE IF y.mant = <<>> THEN [val |-> x, inexact |-> FALSE]
    ELSE LET lo == IF x.exp <= y.exp THEN x ELSE y
             hi == IF x.exp <= y.exp THEN y ELSE x
             r == RoundBits(AddBits(hi.mant \o Zeros(hi.exp - lo.exp), lo.mant),
                            lo.exp, FALSE)
         IN  [val |-> [neg |-> x.neg, mant |-> r.mant, exp |-> r.exp],
              inexact |-> r.inexact]

\* The remainder of the first i bits of a binary numeral divided by n.
RECURSIVE DivRem(_, _, _)
DivRem(bits, n, i) ==
    IF i = 0 THEN 0 ELSE (2 * DivRem(bits, n, i - 1) + bits[i]) % n

\* Long division of a binary numeral by n: the quotient bits.
LongDiv(bits, n) ==
    [i \in 1..Len(bits) |->
        IF 2 * DivRem(bits, n, i - 1) + bits[i] >= n THEN 1 ELSE 0]

\* The quotient of the significand of x, extended by n + 2 bits, by n,
\* rounded: [mant, exp, inexact].
RoundedQuotient(x, n) ==
    RoundBits(StripZeros(LongDiv(x.mant \o Zeros(n + 2), n)),
              x.exp - (n + 2),
              DivRem(x.mant \o Zeros(n + 2), n, Len(x.mant) + n + 2) # 0)

\* x / float64(n) for a count n >= 1: [val, inexact].
F64DivInt(x, n) ==
    IF x.mant = <<>> THEN [val |-> x, inexact |-> FALSE]
    ELSE [val |-> [neg |-> x.neg,
                   mant |-> RoundedQuotient(x, n).mant,
                   exp |-> RoundedQuotient(x, n).exp],
          inexact |-> RoundedQuotient(x, n).inexact]

\* math.Abs
F64Abs(x) == [x EXCEPT !.neg = FALSE]

\* |x| < |y|
F64AbsLess(x, y) ==
    IF y.mant = <<>> THEN FALSE
    ELSE IF x.mant = <<>> THEN TRUE
    ELSE IF x.exp # y.exp THEN x.exp < y.exp
    ELSE BitsLess(x.mant, y.mant)

\* x < y
F64Less(x, y) ==
    IF x.mant = <<>> /\ y.mant = <<>> THEN FALSE
    ELSE IF x.neg # y.neg THEN x.neg
    ELSE IF x.neg THEN F64AbsLess(y, x)
    ELSE F64AbsLess(x, y)

\* The loop of CalculateAverageAmount: [val, inexact] after adding txs[i..].
RECURSIVE SumAmountsF64(_, _, _)
SumAmountsF64(txs, i, sum) ==
    IF i > Len(txs) THEN sum
    ELSE LET s == F64Add(sum.val, txs[i].Amount)
         IN  SumAmountsF64(txs, i + 1,
                 [val |-> s.val, inexact |-> sum.inexact \/ s.inexact])

\* CalculateAverageAmount on float64 amounts: [val, inexact].
CalculateAverageAmountF64(txs) ==
    IF Len(txs) = 0 THEN [val |-> F64Zero, inexact |-> FALSE]
    ELSE LET sum == SumAmountsF64(txs, 1, [val |-> F64Zero, inexact |-> FALSE])
             avg == F64DivInt(sum.val, Len(txs))
         IN  [val |-> avg.val, inexact |-> sum.inexact \/ avg.inexact]

RECURSIVE ScanMinF64(_, _, _)
ScanMinF64(txs, i, min) ==
    IF i > Len(txs) THEN min
    ELSE ScanMinF64(txs, i + 1,
             IF F64Less(F64Abs(txs[i].Amount), min)
             THEN F64Abs(txs[i].Amount) ELSE min)

RECURSIVE ScanMaxF64(_, _, _)
ScanMaxF64(txs, i, max) ==
    IF i > Len(txs) THEN max
    ELSE ScanMaxF64(txs, i + 1,
             IF F64Less(max, F64Abs(txs[i].Amount))
             THEN F64Abs(txs[i].Amount) ELSE max)

\* A mutant of CalculateAmountRangeF64: the scan starts from the signed amount.
CalculateAmountRangeF64Signed(txs) ==
    IF Len(txs) = 0 THEN [min |-> F64Zero, max |-> F64Zero]
    ELSE [min |-> ScanMinF64(txs, 2, txs[1].Amount),
          max |-> ScanMaxF64(txs, 2, txs[1].Amount)]

\* CalculateAmountRange on float64 amounts.
CalculateAmountRangeF64(txs) ==
    IF Len(txs) = 0 THEN [min |-> F64Zero, max |-> F64Zero]
    ELSE [min |-> ScanMinF64(txs, 2, F64Abs(txs[1].Amount)),
          max |-> ScanMaxF64(txs, 2, F64Abs(txs[1].Amount))]

(***************************************************************************)
(* Strings, maps and sort.Slice                                            *)
(***************************************************************************)
UpperLetters ==
    <<"A", "B", "C", "D", "E", "F", "G", "H", "I", "J", "K", "L", "M",
      "N", "O", "P", "Q", "R", "S", "T", "U", "V", "W", "X", "Y", "Z">>

LowerLetters ==
    <<"a", "b", "c", "d", "e", "f", "g", "h", "i", "j", "k", "l", "m",
      "n", "o", "p", "q", "r", "s", "t", "u", "v", "w", "x", "y", "z">>

LowerChar(c) ==
    IF \E i \in 1..Len(UpperLetters) : UpperLetters[i] = c
    THEN LowerLetters[CHOOSE i \in 1..Len(UpperLetters) : UpperLetters[i] = c]
    ELSE c

\* strings.ToLower
ToLower(str) == [i \in 1..Len(str) |-> LowerChar(str[i])]

Range(s) == {s[i] : i \in 1..Len(s)}

\* The orders in which a range loop may visit the keys of a map.
KeyOrders(keys) ==
    {order \in [1..Cardinality(keys) -> keys] :
        \A i, j \in 1..Cardinality(keys) : i # j => order[i] # order[j]}

\* The rearrangements of a slice.
Rearrangements(s) ==
    {[i \in 1..Len(s) |-> s[p[i]]] : p \in KeyOrders(1..Len(s))}

\* A mutant of SortByDate: the slice is left as it is.
SortByDateUnsorted(txs) == {txs}

\* sort.Slice(txs, func(i, j) { return txs[i].Date.Before(txs[j].Date) }):
\* the sort is not stable, so transactions of one date may end in any order.
SortByDate(txs) ==
    {t \in Rearrangements(txs) :
        \A i, j \in 1..Len(t) : i < j => ~Before(t[j].Date, t[i].Date)}

\* math.Abs(a.AvgAmount) > math.Abs(b.AvgAmount), on quotients.
AbsAvgGreater(a, b) ==
    Abs(a.AvgAmount.num) * b.AvgAmount.den > Abs(b.AvgAmount.num) * a.AvgAmount.den

\* A mutant of SubscriptionLess: stopped first.
SubscriptionLessStoppedFirst(a, b) ==
    IF a.Status # b.Status THEN a.Status = StatusStopped
    ELSE AbsAvgGreater(a, b)

\* The less function of both detectors: active first, then by amount.
SubscriptionLess(a, b) ==
    IF a.Status # b.Status THEN a.Status = StatusActive
    ELSE AbsAvgGreater(a, b)

\* sort.Slice(subscriptions, less) on subscriptions appended in any order.
SortSubscriptions(subs) ==
    {t \in KeyOrders(subs) :
        \A i, j \in 1..Len(t) : i < j => ~SubscriptionLess(t[j], t[i])}

\* The transactions of txs whose lowercased text is key, in the order of txs.
GroupByName(txs, key) ==
    LET HasKey(tx) == ToLower(tx.Text) = key
    IN  SelectSeq(txs, HasKey)

NameKeys(txs) == {ToLower(txs[i].Text) : i \in 1..Len(txs)}

(***************************************************************************)
(* DetectSubscriptions                                                     *)
(***************************************************************************)
\* A mutant of DisplayName: the first spelling seen is kept.
DisplayNameFirst(filteredTxs, allTxs, key) ==
    GroupByName(filteredTxs, key)[1].Text

\* displayNames[key] after both loops: the text of the last transaction of
\* allTxs with this key, or of filteredTxs when allTxs holds none.
DisplayName(filteredTxs, allTxs, key) ==
    LET inAll == GroupByName(allTxs, key)
        inFiltered == GroupByName(filteredTxs, key)
    IN  IF Len(inAll) > 0 THEN inAll[Len(inAll)].Text
        ELSE inFiltered[Len(inFiltered)].Text

\* A mutant of TooFewOccurrences: one expense is enough.
TooFewOccurrencesOne(txs, expenses) == Len(txs) < 2 \/ Len(expenses) < 1

\* if len(txs) < 2 { continue } ... if len(expenses) < 2 { continue }
TooFewOccurrences(txs, expenses) == Len(txs) < 2 \/ Len(expenses) < 2

\* A mutant of MonthlyCheckInput: the complete-months expenses are checked.
MonthlyCheckInputComplete(expenses, allExpenses) == expenses

\* IsMonthlyPattern(allExpenses): the list the monthly check is applied to.
MonthlyCheckInput(expenses, allExpenses) == allExpenses

\* A mutant of ToleranceCheckInput: the full expense list is checked.
ToleranceCheckInputAll(expenses, allExpenses) == allExpenses

\* AmountsWithinTolerance(expenses, tolerance): the list the tolerance check
\* is applied to.
ToleranceCheckInput(expenses, allExpenses) == expenses

\* A mutant of StatisticsInput: the statistics are taken over the full list.
StatisticsInputAll(expenses, allExpenses) == allExpenses

\* CalculateAverageAmount(expenses), CalculateAmountRange(expenses),
\* CalculateTypicalDay(expenses): the list the statistics are taken over.
StatisticsInput(expenses, allExpenses) == expenses

\* The Subscription both detectors assemble: the statistics over statTxs, the
\* lifecycle over lifeTxs (both sorted by date, lifeTxs not empty).
MakeSubscription(name, statTxs, lifeTxs, endDate) ==
    LET lastDate == lifeTxs[Len(lifeTxs)].Date
        td == CalculateTypicalDay(statTxs)
        range == CalculateAmountRange(statTxs)
    IN  [Name |-> name,
         AvgAmount |-> CalculateAverageAmount(statTxs),
         LatestAmount |-> lifeTxs[Len(lifeTxs)].Amount,
         MinAmount |-> range.min,
         MaxAmount |-> range.max,
         Transactions |-> lifeTxs,
         StartDate |-> lifeTxs[1].Date,
         LastDate |-> lastDate,
         TypicalDay |-> td,
         Status |-> DetermineStatus(lastDate, td, endDate)]

\* The subscriptions one iteration of the loop over byName may append for
\* key: none when the group is skipped, else one for every way the two sorts
\* may order transactions of equal date.
GroupSubscriptions(filteredTxs, allTxs, range, tol, key) ==
    LET txs == GroupByName(filteredTxs, key)
        expenses == FilterExpenses(txs)
        allExpenses == FilterExpenses(GroupByName(allTxs, key))
    IN  IF TooFewOccurrences(txs, expenses) THEN {}
        ELSE {MakeSubscription(DisplayName(filteredTxs, allTxs, key),
                               StatisticsInput(pair[1], pair[2]), pair[2],
                               range.End) :
                 pair \in {q \in SortByDate(expenses) \X SortByDate(allExpenses) :
                     /\ IsMonthlyPattern(MonthlyCheckInput(q[1], q[2]))
                     /\ AmountsWithinTolerance(
                            ToleranceCheckInput(q[1], q[2]), tol)}}

\* The lists DetectSubscriptions hands to AmountsWithinTolerance: for every
\* key that passes the occurrence and the monthly checks, expenses as sorted.
ToleranceArgumentsDetect(filteredTxs, allTxs) ==
    UNION {
        LET txs == GroupByName(filteredTxs, key)
            expenses == FilterExpenses(txs)
            allExpenses == FilterExpenses(GroupByName(allTxs, key))
        IN  IF TooFewOccurrences(txs, expenses) THEN {}
            ELSE {ToleranceCheckInput(q[1], q[2]) :
                     q \in {r \in SortByDate(expenses) \X SortByDate(allExpenses) :
                               IsMonthlyPattern(MonthlyCheckInput(r[1], r[2]))}} :
        key \in NameKeys(filteredTxs)}

\* The lists DetectSubscriptions may return: the map byName is visited in any
\* order and the final sort is not stable.  filteredTxs is a sub-list of
\* allTxs, as in run(), so allExpenses is not empty where it is indexed.
DetectSubscriptions(filteredTxs, allTxs, range, tol) ==
    LET keys == {k \in NameKeys(filteredTxs) :
                    GroupSubscriptions(filteredTxs, allTxs, range, tol, k) # {}}
        picks == {f \in [keys -> UNION {GroupSubscriptions(filteredTxs, allTxs, range, tol, k) : k \in keys}] :
                    \A k \in keys : f[k] \in GroupSubscriptions(filteredTxs, allTxs, range, tol, k)}
    IN  UNION {SortSubscriptions({f[k] : k \in keys}) : f \in picks}

(***************************************************************************)
(* FilterToCompleteMonths, FilterOutMatched                                *)
(***************************************************************************)
FilterToCompleteMonths(txs, months) ==
    LET monthSet == Range(months)
        InComplete(tx) == FormatMonth(tx.Date) \in monthSet
    IN  SelectSeq(txs, InComplete)

\* A mutant of FilterOutMatched: nothing is removed.
FilterOutMatchedNothing(txs, matched) == txs

FilterOutMatched(txs, matched) ==
    LET NotMatched(tx) == ToLower(tx.Text) \notin matched
    IN  IF Cardinality(matched) = 0 THEN txs
        ELSE SelectSeq(txs, NotMatched)

(***************************************************************************)
(* KnownSubscription.Matches, Config.MatchesKnown, DetectKnownSubscriptions *)
(*                                                                          *)
(* A pointer is a sequence: <<>> is nil, <<v>> points to v.  A rule is       *)
(* [Pattern, MinAmount, MaxAmount, regex, beforeDate, afterDate]; an unset   *)
(* date bound is the zero time.  Patterns are literal texts.                 *)
(***************************************************************************)
NilPtr == <<>>

Ptr(v) == <<v>>

\* regexp.Compile("(?i)" + pattern), for a literal pattern.
CompileKnown(pattern) == Ptr([caseInsensitive |-> TRUE, literal |-> pattern])

\* re.MatchString(text): the literal occurs somewhere in text, letter case
\* ignored when the expression is case-insensitive.
MatchString(re, text) ==
    LET lit == IF re.caseInsensitive THEN ToLower(re.literal) ELSE re.literal
        txt == IF re.caseInsensitive THEN ToLower(text) ELSE text
    IN  \E i \in 1..(Len(txt) - Len(lit) + 1) :
            SubSeq(txt, i, i + Len(lit) - 1) = lit

\* t.IsZero()
IsZero(t) == t = ZeroTime

\* A mutant of AmountInBounds: the bounds are exclusive.
AmountInBoundsExclusive(k, amt) ==
    /\ ~(k.MinAmount # NilPtr /\ amt <= k.MinAmount[1])
    /\ ~(k.MaxAmount # NilPtr /\ amt >= k.MaxAmount[1])

\* Neither amount check of Matches returns false.
AmountInBounds(k, amt) ==
    /\ ~(k.MinAmount # NilPtr /\ amt < k.MinAmount[1])
    /\ ~(k.MaxAmount # NilPtr /\ amt > k.MaxAmount[1])

\* A mutant of DateInBounds: both date bounds are inclusive.
DateInBoundsInclusive(k, date) ==
    /\ ~(~IsZero(k.beforeDate) /\ After(date, k.beforeDate))
    /\ ~(~IsZero(k.afterDate) /\ Before(date, k.afterDate))

\* Neither date check of Matches returns false.
DateInBounds(k, date) ==
    /\ ~(~IsZero(k.beforeDate) /\ ~Before(date, k.beforeDate))
    /\ ~(~IsZero(k.afterDate) /\ Before(date, k.afterDate))

Matches(k, tx) ==
    IF k.regex = NilPtr THEN FALSE
    ELSE IF ~MatchString(k.regex[1], tx.Text) THEN FALSE
    ELSE LET amt == IF tx.Amount < 0 THEN -tx.Amount ELSE tx.Amount
         IN  IF ~AmountInBounds(k, amt) THEN FALSE
             ELSE DateInBounds(k, tx.Date)

\* A mutant of MatchesKnown: the last matching rule wins.
MatchesKnownLast(c, tx) ==
    IF c = NilPtr THEN 0
    ELSE LET known == c[1].Known
             hits == {i \in 1..Len(known) : Matches(known[i], tx)}
         IN  IF hits = {} THEN 0
             ELSE CHOOSE i \in hits : \A j \in hits : i >= j

\* The index in c.Known of the rule MatchesKnown returns; 0 for nil.
MatchesKnown(c, tx) ==
    IF c = NilPtr THEN 0
    ELSE LET known == c[1].Known
             hits == {i \in 1..Len(known) : Matches(known[i], tx)}
         IN  IF hits = {} THEN 0
             ELSE CHOOSE i \in hits : \A j \in hits : i <= j

\* A mutant of ConsideredByKnown: incomes are considered too.
ConsideredByKnownAnyAmount(tx) == TRUE

\* if tx.Amount >= 0 { continue }
ConsideredByKnown(tx) == ~(tx.Amount >= 0)

\* known.Pattern of the rule tx is attributed to; <<"nil">> when tx is skipped.
KnownPatternOf(c, tx) ==
    IF ~ConsideredByKnown(tx) \/ MatchesKnown(c, tx) = 0 THEN <<Nil>>
    ELSE c[1].Known[MatchesKnown(c, tx)].Pattern

\* byPattern[pattern].txs after the loop over allTxs.
PatternGroup(allTxs, c, pattern) ==
    LET Attributed(tx) == KnownPatternOf(c, tx) = pattern
    IN  SelectSeq(allTxs, Attributed)

\* A mutant of MatchedTexts: the texts are recorded as they are spelled.
MatchedTextsAsSpelled(allTxs, c) ==
    {allTxs[i].Text : i \in {j \in 1..Len(allTxs) :
                               KnownPatternOf(c, allTxs[j]) # <<Nil>>}}

\* matchedTexts after the loop over allTxs.
MatchedTexts(allTxs, c) ==
    {ToLower(allTxs[i].Text) : i \in {j \in 1..Len(allTxs) :
                                        KnownPatternOf(c, allTxs[j]) # <<Nil>>}}

\* A mutant of KnownSubscriptions: a group needs two occurrences, as in the
\* pattern detector.
KnownSubscriptionsMinTwo(allTxs, range, c, pattern) ==
    IF Len(PatternGroup(allTxs, c, pattern)) < 2 THEN {}
    ELSE {MakeSubscription(txs[Len(txs)].Text, txs, txs, range.End) :
             txs \in SortByDate(PatternGroup(allTxs, c, pattern))}

\* The subscriptions the loop over byPattern may append for one pattern: none
\* for an empty group, else one for every way the sort may order transactions
\* of equal date.
KnownSubscriptions(allTxs, range, c, pattern) ==
    IF Len(PatternGroup(allTxs, c, pattern)) = 0 THEN {}
    ELSE {MakeSubscription(txs[Len(txs)].Text, txs, txs, range.End) :
             txs \in SortByDate(PatternGroup(allTxs, c, pattern))}

\* The results DetectKnownSubscriptions may return, [subs, matched]: the map
\* byPattern is visited in any order and the final sort is not stable.
DetectKnownSubscriptions(allTxs, range, c) ==
    IF c = NilPtr \/ Len(c[1].Known) = 0
    THEN {[subs |-> <<>>, matched |-> {}]}
    ELSE LET patterns ==
                 {p \in {KnownPatternOf(c, allTxs[i]) : i \in 1..Len(allTxs)}
                             \ {<<Nil>>} :
                     KnownSubscriptions(allTxs, range, c, p) # {}}
             picks == {f \in [patterns -> UNION {KnownSubscriptions(allTxs, range, c, p) : p \in patterns}] :
                         \A p \in patterns : f[p] \in KnownSubscriptions(allTxs, range, c, p)}
         IN  {[subs |-> list, matched |-> MatchedTexts(allTxs, c)] :
                 list \in UNION {SortSubscriptions({f[p] : p \in patterns}) : f \in picks}}

(***************************************************************************)
(* LoadConfig: the known rules                                             *)
(***************************************************************************)
\* A KnownSubscription as written in a file or in DefaultKnownSubscriptions:
\* the compiled fields are not set.
RawRule(pattern, min, max, before, after) ==
    [Pattern |-> pattern, MinAmount |-> min, MaxAmount |-> max,
     Before |-> before, After |-> after]

\* {Pattern: "..."}
DefaultRule(pattern) == RawRule(pattern, NilPtr, NilPtr, <<>>, <<>>)

\* DefaultKnownSubscriptions, in its order: the entries whose pattern is a
\* literal.  The entries with regular-expression operators are left out.
DefaultKnownSubscriptions ==
    <<DefaultRule(<<"N", "E", "T", "F", "L", "I", "X">>),
      DefaultRule(<<"D", "I", "S", "N", "E", "Y", "P", "L", "U", "S">>),
      DefaultRule(<<"H", "B", "O", "M", "A", "X">>),
      DefaultRule(<<"P", "A", "R", "A", "M", "O", "U", "N", "T", "P", "L", "U", "S">>),
      DefaultRule(<<"P", "E", "A", "C", "O", "C", "K">>),
      DefaultRule(<<"H", "U", "L", "U">>),
      DefaultRule(<<"C", "R", "U", "N", "C", "H", "Y", "R", "O", "L", "L">>),
      DefaultRule(<<"V", "I", "A", "P", "L", "A", "Y">>),
      DefaultRule(<<"S", "P", "O", "T", "I", "F", "Y">>),
      DefaultRule(<<"T", "I", "D", "A", "L">>),
      DefaultRule(<<"D", "E", "E", "Z", "E", "R">>),
      DefaultRule(<<"S", "O", "U", "N", "D", "C", "L", "O", "U", "D">>),
      DefaultRule(<<"A", "U", "D", "I", "B", "L", "E">>),
      DefaultRule(<<"D", "R", "O", "P", "B", "O", "X">>),
      DefaultRule(<<"I", "C", "L", "O", "U", "D">>),
      DefaultRule(<<"O", "N", "E", "D", "R", "I", "V", "E">>),
      DefaultRule(<<"A", "D", "O", "B", "E">>),
      DefaultRule(<<"C", "A", "N", "V", "A">>),
      DefaultRule(<<"N", "O", "T", "I", "O", "N">>),
      DefaultRule(<<"E", "V", "E", "R", "N", "O", "T", "E">>),
      DefaultRule(<<"1", "P", "A", "S", "S", "W", "O", "R", "D">>),
      DefaultRule(<<"L", "A", "S", "T", "P", "A", "S", "S">>),
      DefaultRule(<<"B", "I", "T", "W", "A", "R", "D", "E", "N">>),
      DefaultRule(<<"D", "A", "S", "H", "L", "A", "N", "E">>),
      DefaultRule(<<"Z", "O", "O", "M">>),
      DefaultRule(<<"S", "L", "A", "C", "K">>),
      DefaultRule(<<"N", "O", "R", "D", "V", "P", "N">>),
      DefaultRule(<<"E", "X", "P", "R", "E", "S", "S", "V", "P", "N">>),
      DefaultRule(<<"S", "U", "R", "F", "S", "H", "A", "R", "K">>),
      DefaultRule(<<"M", "U", "L", "L", "V", "A", "D">>),
      DefaultRule(<<"P", "R", "O", "T", "O", "N", "V", "P", "N">>),
      DefaultRule(<<"M", "E", "D", "I", "U", "M">>),
      DefaultRule(<<"S", "U", "B", "S", "T", "A", "C", "K">>),
      DefaultRule(<<"S", "C", "R", "I", "B", "D">>),
      DefaultRule(<<"P", "E", "L", "O", "T", "O", "N">>),
      DefaultRule(<<"S", "T", "R", "A", "V", "A">>),
      DefaultRule(<<"H", "E", "A", "D", "S", "P", "A", "C", "E">>),
      DefaultRule(<<"C", "A", "L", "M">>),
      DefaultRule(<<"M", "Y", "F", "I", "T", "N", "E", "S", "S", "P", "A", "L">>),
      DefaultRule(<<"G", "I", "T", "H", "U", "B">>),
      DefaultRule(<<"G", "I", "T", "L", "A", "B">>),
      DefaultRule(<<"J", "E", "T", "B", "R", "A", "I", "N", "S">>),
      DefaultRule(<<"D", "I", "G", "I", "T", "A", "L", "O", "C", "E", "A", "N">>),
      DefaultRule(<<"H", "E", "R", "O", "K", "U">>),
      DefaultRule(<<"N", "E", "T", "L", "I", "F", "Y">>),
      DefaultRule(<<"V", "E", "R", "C", "E", "L">>)>>

DecimalDigits == <<"0", "1", "2", "3", "4", "5", "6", "7", "8", "9">>

DigitValue(c) == (CHOOSE i \in 1..10 : DecimalDigits[i] = c) - 1

\* time.Parse("2006-01-02", str), for a str of that layout.
ParseDate(str) ==
    [year |-> 1000 * DigitValue(str[1]) + 100 * DigitValue(str[2])
                  + 10 * DigitValue(str[3]) + DigitValue(str[4]),
     month |-> 10 * DigitValue(str[6]) + DigitValue(str[7]),
     day |-> 10 * DigitValue(str[9]) + DigitValue(str[10])]

\* The loop that compiles cfg.Known[i].
CompileRule(k) ==
    [Pattern |-> k.Pattern, MinAmount |-> k.MinAmount, MaxAmount |-> k.MaxAmount,
     regex |-> CompileKnown(k.Pattern),
     beforeDate |-> IF k.Before # <<>> THEN ParseDate(k.Before) ELSE ZeroTime,
     afterDate |-> IF k.After # <<>> THEN ParseDate(k.After) ELSE ZeroTime]

\* A mutant of MergeKnown: the rules of the file come first.
MergeKnownUserFirst(useDefaultKnown, known) ==
    IF useDefaultKnown = NilPtr \/ useDefaultKnown[1]
    THEN known \o DefaultKnownSubscriptions
    ELSE known

\* cfg.Known after the merge with the defaults.
MergeKnown(useDefaultKnown, known) ==
    IF useDefaultKnown = NilPtr \/ useDefaultKnown[1]
    THEN DefaultKnownSubscriptions \o known
    ELSE known

\* LoadConfig on a file with the given use_default_known and known entries,
\* all of them valid: the *Config it returns.
LoadConfig(file) ==
    Ptr([Known |->
            [i \in 1..Len(MergeKnown(file.UseDefaultKnown, file.Known)) |->
                CompileRule(MergeKnown(file.UseDefaultKnown, file.Known)[i])]])

(***************************************************************************)
(* SuggestGroups                                                           *)
(***************************************************************************)
\* The characters of the modelled texts in the order of their byte values.
ByteOrder ==
    <<" ", "*", "0", "1", "2", "3", "4", "5", "6", "7", "8", "9">>
    \o UpperLetters \o <<"|">> \o LowerLetters

ByteRank(c) == CHOOSE i \in 1..Len(ByteOrder) : ByteOrder[i] = c

\* a < b on strings
StringLess(a, b) ==
    \E i \in 1..(Len(a) + 1) :
        /\ i <= Len(b)
        /\ \A j \in 1..(i - 1) : a[j] = b[j]
        /\ i <= Len(a) => ByteRank(a[i]) < ByteRank(b[i])

\* unicode.IsSpace
IsSpace(c) == c \in {" ", "\t", "\n", "\r"}

\* strings.Fields
RECURSIVE Fields(_)
Fields(str) ==
    IF Len(str) = 0 THEN <<>>
    ELSE IF IsSpace(str[1]) THEN Fields(Tail(str))
    ELSE <<SubSeq(str, 1,
                  CHOOSE n \in 1..Len(str) :
                      /\ \A i \in 1..n : ~IsSpace(str[i])
                      /\ n = Len(str) \/ IsSpace(str[n + 1]))>>
         \o Fields(SubSeq(str,
                          1 + (CHOOSE n \in 1..Len(str) :
                                  /\ \A i \in 1..n : ~IsSpace(str[i])
                                  /\ n = Len(str) \/ IsSpace(str[n + 1])),
                          Len(str)))

\* strings.Contains(name, " ")
ContainsSpace(name) == \E i \in 1..Len(name) : name[i] = " "

\* The keys of wordPrefixes that name is appended to.
WordPrefixesOf(name) ==
    (IF Len(Fields(name)) > 0 /\ Len(Fields(name)[1]) >= 3
     THEN {Fields(name)[1]} ELSE {})
    \cup (IF Len(Fields(name)) > 1
          THEN {Fields(name)[1] \o <<" ">> \o Fields(name)[2]} ELSE {})

\* The keys of charPrefixes that name is appended to.
CharPrefixesOf(name) ==
    IF ContainsSpace(name) THEN {}
    ELSE {SubSeq(name, 1, prefixLen) :
             prefixLen \in {n \in {6, 8, 10, 12} : Len(name) > n}}

\* a sorts before b: shorter first, then in string order.
PrefixLess(a, b) ==
    IF Len(a) # Len(b) THEN Len(a) < Len(b) ELSE StringLess(a, b)

\* A mutant of SortPrefixKeys: the keys are left in the order of the map.
SortPrefixKeysUnsorted(keys) == KeyOrders(keys)

\* sort.Slice(keys, ...) on the keys of a map, which are distinct: the one
\* order without an inversion.
SortPrefixKeys(keys) ==
    {[k \in 1..Cardinality(keys) |->
         CHOOSE key \in keys :
             Cardinality({other \in keys : PrefixLess(other, key)}) = k - 1]}

\* uniqueStrings
UniqueStrings(strs) ==
    LET First(i) == \A j \in 1..(i - 1) : strs[j] # strs[i]
        kept == {i \in 1..Len(strs) : First(i)}
    IN  [k \in 1..Cardinality(kept) |->
            strs[CHOOSE i \in kept : Cardinality({j \in kept : j <= i}) = k]]

\* sort.Strings, then strings.Join(sortedNames, "|")
RECURSIVE JoinSorted(_)
JoinSorted(names) ==
    IF names = {} THEN <<>>
    ELSE LET first == CHOOSE n \in names :
                          \A m \in names : m = n \/ StringLess(n, m)
         IN  IF names = {first} THEN first
             ELSE first \o <<"|">> \o JoinSorted(names \ {first})

\* txsByName[name], for the expenses list.
TxsByName(expenses, name) ==
    LET HasName(tx) == tx.Text = name
    IN  SelectSeq(expenses, HasName)

\* allTxs of a group: the transactions of its names, name after name.
RECURSIVE CollectTxs(_, _, _)
CollectTxs(expenses, names, i) ==
    IF i > Len(names) THEN <<>>
    ELSE TxsByName(expenses, names[i]) \o CollectTxs(expenses, names, i + 1)

\* regexp.QuoteMeta
RECURSIVE QuoteMeta(_)
QuoteMeta(str) ==
    IF Len(str) = 0 THEN <<>>
    ELSE (IF str[1] \in {"\\", ".", "+", "*", "?", "(", ")", "|", "[", "]",
                         "{", "}", "^", "$"}
          THEN <<"\\", str[1]>> ELSE <<str[1]>>) \o QuoteMeta(Tail(str))

\* generatePattern
GeneratePattern(prefix) == <<"^">> \o QuoteMeta(prefix)

\* wordPrefixes, as the pairs <<prefix, name>> of a key and a name in its list.
WordPrefixes(names) ==
    UNION {{<<prefix, name>> : prefix \in WordPrefixesOf(name)} : name \in names}

\* charPrefixes, as the pairs <<prefix, name>> of a key and a name in its list.
CharPrefixes(names) ==
    UNION {{<<prefix, name>> : prefix \in CharPrefixesOf(name)} : name \in names}

\* The keys of a map given as pairs.
Keys(pairs) == {pair[1] : pair \in pairs}

\* prefixCandidates[prefix], with the orphan names in the order orphans: the
\* list of wordPrefixes, then the list of charPrefixes.
PrefixCandidates(orphans, prefix, wordPrefixes, charPrefixes) ==
    LET InWord(name) == <<prefix, name>> \in wordPrefixes
        InChar(name) == <<prefix, name>> \in charPrefixes
    IN  SelectSeq(orphans, InWord) \o SelectSeq(orphans, InChar)

\* months of findPrefixGroups: the year-months of the transactions.
MonthsOfGroup(txs) == {FormatMonth(txs[i].Date) : i \in 1..Len(txs)}

\* The group findPrefixGroups builds for prefix.
MakeGroup(expenses, orphans, prefix, wordPrefixes, charPrefixes) ==
    LET uniqueNames ==
            UniqueStrings(PrefixCandidates(orphans, prefix, wordPrefixes,
                                           charPrefixes))
    IN  [Prefix |-> prefix,
         Pattern |-> GeneratePattern(prefix),
         Names |-> uniqueNames,
         MonthCount |->
             Cardinality(MonthsOfGroup(CollectTxs(expenses, uniqueNames, 1))),
         Transactions |-> CollectTxs(expenses, uniqueNames, 1)]

\* The names of prefixCandidates[prefix], which do not depend on the order
\* of the orphan names.
CandidateNames(prefix, wordPrefixes, charPrefixes) ==
    {pair[2] : pair \in {q \in wordPrefixes \cup charPrefixes : q[1] = prefix}}

\* Neither size check of findPrefixGroups skips prefix.
EnoughNames(prefix, wordPrefixes, charPrefixes) ==
    /\ ~(Cardinality({q \in wordPrefixes : q[1] = prefix})
           + Cardinality({q \in charPrefixes : q[1] = prefix}) < 3)
    /\ ~(Cardinality(CandidateNames(prefix, wordPrefixes, charPrefixes)) < 3)

\* The key of the seen map for prefix.
SeenKey(prefix, wordPrefixes, charPrefixes) ==
    JoinSorted(CandidateNames(prefix, wordPrefixes, charPrefixes))

\* The prefixes the loop of findPrefixGroups builds a group for, in its
\* order: those with enough names whose key no earlier prefix with enough
\* names has set in seen.
GroupPrefixes(sortedPrefixes, wordPrefixes, charPrefixes) ==
    LET Yields(i) ==
            /\ EnoughNames(sortedPrefixes[i], wordPrefixes, charPrefixes)
            /\ \A j \in 1..(i - 1) :
                   EnoughNames(sortedPrefixes[j], wordPrefixes, charPrefixes) =>
                       SeenKey(sortedPrefixes[j], wordPrefixes, charPrefixes)
                           # SeenKey(sortedPrefixes[i], wordPrefixes, charPrefixes)
        yielding == {i \in 1..Len(sortedPrefixes) : Yields(i)}
    IN  [k \in 1..Cardinality(yielding) |->
            sortedPrefixes[CHOOSE i \in yielding :
                               Cardinality({j \in yielding : j <= i}) = k]]

\* The lists findPrefixGroups may return for the orphan names, which
\* SuggestGroups collects from the map byName in any order.
FindPrefixGroups(expenses, names) ==
    UNION {
        {[k \in 1..Len(prefixes) |->
             MakeGroup(expenses, orphans, prefixes[k], wordPrefixes,
                       charPrefixes)] :
            orphans \in KeyOrders(names),
            prefixes \in
                {GroupPrefixes(wordKeys \o charKeys, wordPrefixes, charPrefixes) :
                    wordKeys \in SortPrefixKeys(Keys(wordPrefixes)),
                    charKeys \in SortPrefixKeys(Keys(charPrefixes))}} :
        wordPrefixes \in {WordPrefixes(names)},
        charPrefixes \in {CharPrefixes(names)}}

\* A mutant of IsLikelySubscription: three transactions are enough.
IsLikelySubscriptionAny(txs, tol) == ~(Len(txs) < 3)

\* isLikelySubscription.  Two transactions on one date fail the monthly check
\* however the sort orders them, and otherwise the sort has one result.
IsLikelySubscription(txs, tol) ==
    IF Len(txs) < 3 THEN FALSE
    ELSE \E sorted \in SortByDate(txs) :
             IsMonthlyPattern(sorted) /\ AmountsWithinTolerance(sorted, tol)

\* A mutant of AddsCoverage: half of the names being new is enough.
AddsCoverageHalf(names, coveredNames) ==
    2 * Cardinality({i \in 1..Len(names) : names[i] \notin coveredNames})
        >= Len(names)

\* float64(newNames)/float64(len(s.Names)) > 0.5
AddsCoverage(names, coveredNames) ==
    2 * Cardinality({i \in 1..Len(names) : names[i] \notin coveredNames})
        > Len(names)

\* The loop of deduplicateSuggestions from position i on.
RECURSIVE DeduplicateLoop(_, _, _)
DeduplicateLoop(suggestions, i, coveredNames) ==
    IF i > Len(suggestions) THEN <<>>
    ELSE IF AddsCoverage(suggestions[i].Names, coveredNames)
    THEN <<suggestions[i]>> \o
         DeduplicateLoop(suggestions, i + 1,
                         coveredNames \cup Range(suggestions[i].Names))
    ELSE DeduplicateLoop(suggestions, i + 1, coveredNames)

\* The lists deduplicateSuggestions may return: the sort by prefix length is
\* not stable.
DeduplicateSuggestions(suggestions) ==
    IF Len(suggestions) <= 1 THEN {suggestions}
    ELSE {DeduplicateLoop(t, 1, {}) :
             t \in {r \in Rearrangements(suggestions) :
                       \A i, j \in 1..Len(r) :
                           i < j => ~(Len(r[j].Prefix) < Len(r[i].Prefix))}}

\* sort.Slice(suggestions, ...) by MonthCount, descending.
SortByMonthCount(suggestions) ==
    {r \in Rearrangements(suggestions) :
        \A i, j \in 1..Len(r) : i < j => ~(r[j].MonthCount > r[i].MonthCount)}

\* A mutant of OrphanNames: every name is a candidate.
OrphanNamesAll(expenses) == {expenses[i].Text : i \in 1..Len(expenses)}

\* The names that appear once or twice among the expenses.
OrphanNames(expenses) ==
    {name \in {expenses[i].Text : i \in 1..Len(expenses)} :
        Len(TxsByName(expenses, name)) <= 2}

\* The lists SuggestGroups hands to AmountsWithinTolerance, through
\* isLikelySubscription: the transactions of every prefix group of three or
\* more that pass the monthly check, as sorted.
ToleranceArgumentsSuggest(txs) ==
    LET expenses == FilterExpenses(txs)
    IN  UNION {
            UNION {{sorted \in SortByDate(groups[k].Transactions) :
                       /\ ~(Len(groups[k].Transactions) < 3)
                       /\ IsMonthlyPattern(sorted)} : k \in 1..Len(groups)} :
            groups \in FindPrefixGroups(expenses, OrphanNames(expenses))}

\* The lists SuggestGroups may return.
SuggestGroups(txs, tol) ==
    LET expenses == FilterExpenses(txs)
        Likely(group) == IsLikelySubscription(group.Transactions, tol)
    IN  UNION {SortByMonthCount(deduplicated) :
            deduplicated \in UNION {DeduplicateSuggestions(SelectSeq(groups, Likely)) :
                groups \in FindPrefixGroups(expenses, OrphanNames(expenses))}}

(***************************************************************************)
(* Slices in memory.  The heap is the sequence of the backing arrays         *)
(* allocated so far and a slice is the index of its array: the code takes    *)
(* no sub-slice of a transaction list, and a nil slice is an empty array     *)
(* that nothing else refers to.  A function is given the slices of its       *)
(* arguments and yields the heaps it may leave.  Arrays are allocated in one *)
(* order, the identity of an array being immaterial.                         *)
(***************************************************************************)
\* sort.Slice(s, by date): the array of s is permuted in place.
SortSliceInPlace(heap, s) ==
    {[heap EXCEPT ![s] = sorted] : sorted \in SortByDate(heap[s])}

\* sort.Slice on every slice of the list, in its order.
RECURSIVE SortEach(_, _)
SortEach(heap, slices) ==
    IF slices = <<>> THEN {heap}
    ELSE UNION {SortEach(h, Tail(slices)) :
                   h \in SortSliceInPlace(heap, Head(slices))}

\* A mutant of SortedSlice: the list the caller passed is sorted.
SortedSliceGiven(own, given) == given

\* The slice DetectSubscriptions sorts by date: expenses, which
\* FilterExpenses built, not the parameter filteredTxs.
SortedSlice(own, given) == own

\* The elements of a set of keys, in one order.
SeqOfKeys(keys) == CHOOSE s \in KeyOrders(keys) : TRUE

\* DetectKnownSubscriptions: byPattern[pattern].txs is appended to from
\* nothing and sorted in place.
DetectKnownSubscriptionsInMemory(heap, a, c) ==
    IF c = NilPtr \/ Len(c[1].Known) = 0 THEN {heap}
    ELSE LET allTxs == heap[a]
             patterns ==
                 SeqOfKeys({KnownPatternOf(c, allTxs[i]) : i \in 1..Len(allTxs)}
                               \ {<<Nil>>})
             groups == [i \in 1..Len(patterns) |->
                           PatternGroup(allTxs, c, patterns[i])]
         IN  SortEach(heap \o groups,
                      [i \in 1..Len(patterns) |-> Len(heap) + i])

\* FilterOutMatched: the list itself when nothing matched, else a new one.
FilterOutMatchedInMemory(heap, t, matched) ==
    IF Cardinality(matched) = 0 THEN [heap |-> heap, slice |-> t]
    ELSE [heap |-> Append(heap, FilterOutMatched(heap[t], matched)),
          slice |-> Len(heap) + 1]

\* FilterToCompleteMonths: a new list.
FilterToCompleteMonthsInMemory(heap, t, months) ==
    [heap |-> Append(heap, FilterToCompleteMonths(heap[t], months)),
     slice |-> Len(heap) + 1]

\* DetectSubscriptions: byName[key] and allByName[key] are appended to from
\* nothing; for a key with two transactions FilterExpenses builds expenses,
\* and for one with two expenses expenses is sorted, allExpenses built and
\* sorted.
DetectSubscriptionsInMemory(heap, f, a) ==
    LET filteredTxs == heap[f]
        allTxs == heap[a]
        keys == SeqOfKeys(NameKeys(filteredTxs))
        allKeys == SeqOfKeys(NameKeys(allTxs))
        Twice(key) == ~(Len(GroupByName(filteredTxs, key)) < 2)
        twice == SelectSeq(keys, Twice)
        Passing(i) ==
            ~(Len(FilterExpenses(GroupByName(filteredTxs, twice[i]))) < 2)
        passing == SeqOfKeys({i \in 1..Len(twice) : Passing(i)})
        byName == [i \in 1..Len(keys) |-> GroupByName(filteredTxs, keys[i])]
        allByName ==
            [i \in 1..Len(allKeys) |-> GroupByName(allTxs, allKeys[i])]
        expenses ==
            [i \in 1..Len(twice) |->
                FilterExpenses(GroupByName(filteredTxs, twice[i]))]
        allExpenses ==
            [i \in 1..Len(passing) |->
                FilterExpenses(GroupByName(allTxs, twice[passing[i]]))]
        base == Len(heap) + Len(keys) + Len(allKeys)
        sorted ==
            [n \in 1..(2 * Len(passing)) |->
                IF n % 2 = 1
                THEN SortedSlice(base + passing[(n + 1) \div 2], f)
                ELSE base + Len(twice) + (n \div 2)]
    IN  SortEach(heap \o byName \o allByName \o expenses \o allExpenses,
                 sorted)

\* SuggestGroups: expenses is built by FilterExpenses, byName[name] and the
\* Transactions of every prefix group are appended to from nothing, and
\* isLikelySubscription sorts a copy of a list of three or more.
SuggestGroupsInMemory(heap, t) ==
    LET expenses == FilterExpenses(heap[t])
        names == SeqOfKeys({expenses[i].Text : i \in 1..Len(expenses)})
        byName == [i \in 1..Len(names) |-> TxsByName(expenses, names[i])]
        heap1 == Append(heap, expenses) \o byName
    IN  UNION {
            LET pooled == [k \in 1..Len(groups) |-> groups[k].Transactions]
                AtLeastThree(txs) == ~(Len(txs) < 3)
                copies == SelectSeq(pooled, AtLeastThree)
            IN  SortEach(heap1 \o pooled \o copies,
                         [k \in 1..Len(copies) |->
                             Len(heap1) + Len(pooled) + k]) :
            groups \in FindPrefixGroups(expenses, OrphanNames(expenses))}

(***************************************************************************)
(* Inputs.                                                                 *)
(***************************************************************************)
\* All sequences over S of length at most n.
BoundedSeq(S, n) == UNION {[1..k -> S] : k \in 0..n}

\* All calendar days of the given <<year, month>> pairs.
DaysOfMonths(yms) ==
    {[year |-> ym[1], month |-> ym[2], day |-> d] :
        ym \in yms, d \in 1..31} \cap
    {t \in [year : {ym[1] : ym \in yms}, month : 1..12, day : 1..31] :
        t.day <= DaysIn(t.year, t.month)}

\* The variables an operation does not use.
IdleRun ==
    /\ completeMonths = <<>>
    /\ dateRange = ZeroDateRange
    /\ knownSubs = <<>>
    /\ matchedTexts = {}
    /\ regularTxs = <<>>
    /\ filtered = <<>>
    /\ subscriptions = <<>>

IdleStatus ==
    /\ lastPayment = ZeroTime
    /\ typicalDay = 0
    /\ dataEndDate = ZeroTime
    /\ status = Nil

(***************************************************************************)
(* Specification SpecCoverage: AnalyzeDataCoverage on a list of dated      *)
(* transactions in any order.                                               *)
(***************************************************************************)
MaxCoverageTxs == 3

CoverageMonths ==
    {<<2023, 2>>, <<2023, 12>>, <<2024, 1>>, <<2024, 2>>, <<2024, 4>>}

CoverageDates ==
    {t \in DaysOfMonths(CoverageMonths) : t.day \in {1, 15, 28, 29, 30, 31}}

CoverageTxs == {[Date |-> t, Text |-> <<>>, Amount |-> 0] : t \in CoverageDates}

InitCoverage ==
    /\ pc = "coverage"
    /\ transactions \in BoundedSeq(CoverageTxs, MaxCoverageTxs)
    /\ tolerance = 0
    /\ cfg = NilPtr
    /\ IdleRun
    /\ IdleStatus
    /\ result = Nil

CallAnalyzeDataCoverage ==
    /\ pc = "coverage"
    /\ LET r == AnalyzeDataCoverage(transactions)
       IN  /\ completeMonths' = r.months
           /\ dateRange' = r.range
    /\ pc' = "coverage_done"
    /\ UNCHANGED <<transactions, tolerance, cfg, knownSubs, matchedTexts,
                   regularTxs, filtered, subscriptions, lastPayment,
                   typicalDay, dataEndDate, status, result>>

NextCoverage == CallAnalyzeDataCoverage

SpecCoverage == InitCoverage /\ [][NextCoverage]_vars

(***************************************************************************)
(* Specification SpecStatus: DetermineStatus on a last payment date, a     *)
(* typical day and a data end date not before the last payment.             *)
(***************************************************************************)
StatusEndMonths ==
    {<<2023, 2>>, <<2023, 4>>, <<2024, 1>>, <<2024, 2>>, <<2024, 3>>}

StatusLastMonths ==
    {<<2022, 12>>, <<2023, 1>>, <<2023, 2>>, <<2023, 3>>, <<2023, 4>>,
     <<2023, 11>>, <<2023, 12>>, <<2024, 1>>, <<2024, 2>>, <<2024, 3>>}

StatusLastPayments ==
    {t \in DaysOfMonths(StatusLastMonths) :
        t.day \in {1, 15, DaysIn(t.year, t.month)}}

InitStatus ==
    /\ pc = "status"
    /\ transactions = <<>>
    /\ tolerance = 0
    /\ cfg = NilPtr
    /\ IdleRun
    /\ dataEndDate \in DaysOfMonths(StatusEndMonths)
    /\ lastPayment \in {t \in StatusLastPayments : ~After(t, dataEndDate)}
    /\ typicalDay \in 1..31
    /\ status = Nil
    /\ result = Nil

CallDetermineStatus ==
    /\ pc = "status"
    /\ status' = DetermineStatus(lastPayment, typicalDay, dataEndDate)
    /\ pc' = "status_done"
    /\ UNCHANGED <<transactions, tolerance, cfg, completeMonths, dateRange,
                   knownSubs, matchedTexts, regularTxs, filtered,
                   subscriptions, lastPayment, typicalDay, dataEndDate, result>>

NextStatus == CallDetermineStatus

SpecStatus == InitStatus /\ [][NextStatus]_vars

(***************************************************************************)
(* Specification SpecMonthly: IsMonthlyPattern on a list of transactions   *)
(* dated in several months of two years.                                    *)
(***************************************************************************)
MaxMonthlyTxs == 4

MonthlyDates ==
    {[year |-> 2024, month |-> 1, day |-> 15],
     [year |-> 2024, month |-> 12, day |-> 5],
     [year |-> 2024, month |-> 12, day |-> 20],
     [year |-> 2025, month |-> 1, day |-> 15],
     [year |-> 2025, month |-> 1, day |-> 31],
     [year |-> 2025, month |-> 3, day |-> 15]}

MonthlyTxs == {[Date |-> t, Text |-> <<>>, Amount |-> -100] : t \in MonthlyDates}

InitMonthly ==
    /\ pc = "monthly"
    /\ transactions \in BoundedSeq(MonthlyTxs, MaxMonthlyTxs)
    /\ tolerance = 0
    /\ cfg = NilPtr
    /\ IdleRun
    /\ IdleStatus
    /\ result = Nil

CallIsMonthlyPattern ==
    /\ pc = "monthly"
    /\ result' = IsMonthlyPattern(transactions)
    /\ pc' = "monthly_done"
    /\ UNCHANGED <<transactions, tolerance, cfg, completeMonths, dateRange,
                   knownSubs, matchedTexts, regularTxs, filtered,
                   subscriptions, lastPayment, typicalDay, dataEndDate, status>>

NextMonthly == CallIsMonthlyPattern

SpecMonthly == InitMonthly /\ [][NextMonthly]_vars

(***************************************************************************)
(* Specification SpecTolerance: AmountsWithinTolerance on a list of        *)
(* amounts (expenses, a zero amount, an income) and a tolerance.            *)
(***************************************************************************)
MaxToleranceTxs == 4

ToleranceAmounts == {-115, -110, -105, -100, 0, 110}

ToleranceTxs ==
    {[Date |-> [year |-> 2025, month |-> 1, day |-> 15], Text |-> <<>>,
      Amount |-> a] : a \in ToleranceAmounts}

\* Tolerances in percent: 0.0 and 0.10.
Tolerances == {0, 10}

InitTolerance ==
    /\ pc = "tolerance"
    /\ transactions \in BoundedSeq(ToleranceTxs, MaxToleranceTxs)
    /\ tolerance \in Tolerances
    /\ cfg = NilPtr
    /\ IdleRun
    /\ IdleStatus
    /\ result = Nil

CallAmountsWithinTolerance ==
    /\ pc = "tolerance"
    /\ result' = AmountsWithinTolerance(transactions, tolerance)
    /\ pc' = "tolerance_done"
    /\ UNCHANGED <<transactions, tolerance, cfg, completeMonths, dateRange,
                   knownSubs, matchedTexts, regularTxs, filtered,
                   subscriptions, lastPayment, typicalDay, dataEndDate, status>>

NextTolerance == CallAmountsWithinTolerance

SpecTolerance == InitTolerance /\ [][NextTolerance]_vars

(***************************************************************************)
(* run(): the detection pipeline on the loaded transactions.               *)
(***************************************************************************)
\* completeMonths, dateRange := internal.AnalyzeDataCoverage(transactions)
RunAnalyzeDataCoverage ==
    /\ pc = "run"
    /\ LET r == AnalyzeDataCoverage(transactions)
       IN  /\ completeMonths' = r.months
           /\ dateRange' = r.range
    /\ pc' = "covered"
    /\ UNCHANGED <<transactions, tolerance, cfg, knownSubs, matchedTexts,
                   regularTxs, filtered, subscriptions, lastPayment,
                   typicalDay, dataEndDate, status, result>>

\* knownSubs, matchedTexts := internal.DetectKnownSubscriptions(...)
RunDetectKnownSubscriptions ==
    /\ pc = "covered"
    /\ \E r \in DetectKnownSubscriptions(transactions, dateRange, cfg) :
           /\ knownSubs' = r.subs
           /\ matchedTexts' = r.matched
    /\ pc' = "known"
    /\ UNCHANGED <<transactions, tolerance, cfg, completeMonths, dateRange,
                   regularTxs, filtered, subscriptions, lastPayment,
                   typicalDay, dataEndDate, status, result>>

\* regularTxs := FilterOutMatched(...); filtered := FilterToCompleteMonths(...);
\* subscriptions := DetectSubscriptions(filtered, regularTxs, dateRange, tolerance)
RunDetectSubscriptions ==
    /\ pc = "known"
    /\ LET regular == FilterOutMatched(transactions, matchedTexts)
           complete == FilterToCompleteMonths(regular, completeMonths)
       IN  /\ regularTxs' = regular
           /\ filtered' = complete
           /\ subscriptions' \in
                  DetectSubscriptions(complete, regular, dateRange, tolerance)
    /\ pc' = "detected"
    /\ UNCHANGED <<transactions, tolerance, cfg, completeMonths, dateRange,
                   knownSubs, matchedTexts, lastPayment, typicalDay,
                   dataEndDate, status, result>>

\* subscriptions = append(knownSubs, subscriptions...)
RunMerge ==
    /\ pc = "detected"
    /\ subscriptions' = knownSubs \o subscriptions
    /\ pc' = "merged"
    /\ UNCHANGED <<transactions, tolerance, cfg, completeMonths, dateRange,
                   knownSubs, matchedTexts, regularTxs, filtered, lastPayment,
                   typicalDay, dataEndDate, status, result>>

NextRun ==
    \/ RunAnalyzeDataCoverage
    \/ RunDetectKnownSubscriptions
    \/ RunDetectSubscriptions
    \/ RunMerge

Tx(y, m, d, text, amount) ==
    [Date |-> [year |-> y, month |-> m, day |-> d], Text |-> text,
     Amount |-> amount]

(***************************************************************************)
(* Specification SpecDetect: the pipeline without known rules, on payments  *)
(* of two payees (one spelled in two letter cases) in two complete months    *)
(* and a current month.                                                      *)
(***************************************************************************)
MaxDetectTxs == 4

DetectTxs ==
    {Tx(2025, 1, 15, <<"A", "b">>, -100),
     Tx(2025, 2, 15, <<"A", "B">>, -100),
     Tx(2025, 2, 15, <<"A", "b">>, -150),
     Tx(2025, 3, 10, <<"A", "b">>, -100),
     Tx(2025, 3, 10, <<"A", "b">>, -200),
     Tx(2025, 1, 15, <<"A", "b">>, 50),
     Tx(2025, 1, 15, <<"A", "c">>, -100),
     Tx(2025, 2, 15, <<"A", "c">>, -110),
     Tx(2025, 3, 31, <<"A", "c">>, -100)}

\* A configuration without rules (use_default_known: false, no known entries).
NoRulesConfig == Ptr([Known |-> <<>>])

InitDetect ==
    /\ pc = "run"
    /\ transactions \in BoundedSeq(DetectTxs, MaxDetectTxs)
    /\ tolerance \in Tolerances
    /\ cfg = NoRulesConfig
    /\ IdleRun
    /\ IdleStatus
    /\ result = Nil

SpecDetect == InitDetect /\ [][NextRun]_vars

(***************************************************************************)
(* Specification SpecRun: the pipeline with known rules.                    *)
(***************************************************************************)
MaxRunTxs == 3

RunTxs ==
    {Tx(2025, 1, 15, <<"A", "b">>, -100),
     Tx(2025, 1, 20, <<"A", "B">>, -110),
     Tx(2025, 2, 15, <<"A", "b">>, -150),
     Tx(2025, 3, 10, <<"A", "c">>, -100),
     Tx(2025, 3, 10, <<"A", "b">>, 100),
     Tx(2025, 1, 15, <<"A", "c">>, -100),
     Tx(2025, 2, 28, <<"A", "c">>, -100)}

\* A rule with its parsed date bounds; the zero time is an unset bound.
RuleDated(pattern, min, max, regex, before, after) ==
    [Pattern |-> pattern, MinAmount |-> min, MaxAmount |-> max,
     regex |-> regex, beforeDate |-> before, afterDate |-> after]

\* A rule without date bounds.
Rule(pattern, min, max, regex) ==
    RuleDated(pattern, min, max, regex, ZeroTime, ZeroTime)

\* pattern "A" with min_amount 100 and max_amount 110
RuleBounded == Rule(<<"A">>, Ptr(100), Ptr(110), CompileKnown(<<"A">>))

\* pattern "b" without bounds
RuleUnbounded == Rule(<<"b">>, NilPtr, NilPtr, CompileKnown(<<"b">>))

\* pattern "A" whose regex was never compiled
RuleUncompiled == Rule(<<"A">>, NilPtr, NilPtr, NilPtr)

\* pattern "A" again, with min_amount 150
RuleFrom150 == Rule(<<"A">>, Ptr(150), NilPtr, CompileKnown(<<"A">>))

\* pattern "c" with before 2025-02-28 and after 2025-01-15
RuleDatedC ==
    RuleDated(<<"c">>, NilPtr, NilPtr, CompileKnown(<<"c">>),
              [year |-> 2025, month |-> 2, day |-> 28],
              [year |-> 2025, month |-> 1, day |-> 15])

KnownConfigs ==
    {NilPtr,
     NoRulesConfig,
     Ptr([Known |-> <<RuleBounded>>]),
     Ptr([Known |-> <<RuleUnbounded>>]),
     Ptr([Known |-> <<RuleUncompiled>>]),
     Ptr([Known |-> <<RuleBounded, RuleUnbounded>>]),
     Ptr([Known |-> <<RuleUnbounded, RuleBounded>>]),
     Ptr([Known |-> <<RuleBounded, RuleFrom150>>]),
     Ptr([Known |-> <<RuleDatedC, RuleBounded>>]),
     Ptr([Known |-> <<RuleDatedC>>])}

InitRun ==
    /\ pc = "run"
    /\ transactions \in BoundedSeq(RunTxs, MaxRunTxs)
    /\ tolerance \in Tolerances
    /\ cfg \in KnownConfigs
    /\ IdleRun
    /\ IdleStatus
    /\ result = Nil

SpecRun == InitRun /\ [][NextRun]_vars

(***************************************************************************)
(* Specification SpecLists: the pipeline on payments of two payees, either   *)
(* without rules, so that both are left to the pattern detector, or with one *)
(* rule for each.                                                            *)
(***************************************************************************)
MaxListTxs == 4

ListTxs ==
    {Tx(2025, 1, 15, <<"A", "b">>, -100),
     Tx(2025, 1, 15, <<"A", "B">>, -110),
     Tx(2025, 2, 15, <<"A", "b">>, -100),
     Tx(2025, 3, 31, <<"A", "b">>, -100),
     Tx(2025, 1, 15, <<"A", "c">>, -100),
     Tx(2025, 2, 15, <<"A", "c">>, -110),
     Tx(2025, 3, 31, <<"A", "c">>, -100)}

\* pattern "c" without bounds
RuleUnboundedC == Rule(<<"c">>, NilPtr, NilPtr, CompileKnown(<<"c">>))

ListConfigs ==
    {NoRulesConfig, Ptr([Known |-> <<RuleUnbounded, RuleUnboundedC>>])}

InitLists ==
    /\ pc = "run"
    /\ transactions \in BoundedSeq(ListTxs, MaxListTxs)
    /\ tolerance = 10
    /\ cfg \in ListConfigs
    /\ IdleRun
    /\ IdleStatus
    /\ result = Nil

SpecLists == InitLists /\ [][NextRun]_vars

(***************************************************************************)
(* Specification SpecSuggest: the pipeline followed by SuggestGroups, run    *)
(* twice on the same transactions: payments to payees whose names share a    *)
(* first word, the first two words, or their first six characters, an       *)
(* income and a zero amount among them.  result holds the two lists          *)
(* returned and the set of lists handed to AmountsWithinTolerance.           *)
(***************************************************************************)
MaxSuggestTxs == 6

SuggestTxs ==
    <<Tx(2025, 3, 20, <<"A", "b", "c", " ", "d", " ", "3">>, -100),
      Tx(2025, 4, 15, <<"A", "b", "c", " ", "e", " ", "1">>, -100),
      Tx(2025, 1, 15, <<"A", "b", "c", " ", "d", " ", "1">>, -100),
      Tx(2025, 2, 15, <<"A", "b", "c", " ", "d", " ", "2">>, -100),
      Tx(2025, 3, 15, <<"A", "b", "c", " ", "d", " ", "3">>, -100),
      Tx(2025, 1, 15, <<"G", "h", "i", "j", "k", "l", "1">>, -100),
      Tx(2025, 2, 15, <<"G", "h", "i", "j", "k", "l", "2">>, -100),
      Tx(2025, 3, 15, <<"G", "h", "i", "j", "k", "l", "3">>, -130),
      Tx(2025, 2, 20, <<"H", "i", "j", " ", "5">>, 100),
      Tx(2025, 2, 15, <<"H", "i", "j", " ", "2">>, 0),
      Tx(2025, 1, 15, <<"H", "i", "j", " ", "1">>, -100),
      Tx(2025, 3, 15, <<"H", "i", "j", " ", "2">>, -100),
      Tx(2025, 4, 15, <<"H", "i", "j", " ", "2">>, -100),
      Tx(2025, 5, 15, <<"H", "i", "j", " ", "4">>, -100),
      Tx(2025, 6, 15, <<"H", "i", "j", " ", "3">>, -100),
      Tx(2025, 7, 15, <<"H", "i", "j", " ", "2">>, -100)>>

\* The runs of at most n consecutive transactions of s.
Segments(s, n) ==
    {SubSeq(s, span[1], span[2]) :
        span \in {sp \in (1..(Len(s) + 1)) \X (0..Len(s)) :
                     sp[1] - 1 <= sp[2] /\ sp[2] - sp[1] + 1 <= n}}

SuggestTolerances == {10, 40}

\* One rule, which matches none of SuggestTxs.
SuggestConfigs == {NoRulesConfig, Ptr([Known |-> <<RuleFrom150>>])}

InitSuggest ==
    /\ pc = "run"
    /\ transactions \in Segments(SuggestTxs, MaxSuggestTxs)
    /\ tolerance \in SuggestTolerances
    /\ cfg \in SuggestConfigs
    /\ IdleRun
    /\ IdleStatus
    /\ result = <<>>

\* suggestions := internal.SuggestGroups(transactions, params.Tolerance), in
\* two runs of the program on the same files.
RunSuggestGroups ==
    /\ pc = "merged"
    /\ \E handed \in {ToleranceArgumentsSuggest(transactions)} :
           \E first, second \in SuggestGroups(transactions, tolerance) :
               result' = <<first, second, handed>>
    /\ pc' = "suggested"
    /\ UNCHANGED <<transactions, tolerance, cfg, completeMonths, dateRange,
                   knownSubs, matchedTexts, regularTxs, filtered,
                   subscriptions, lastPayment, typicalDay, dataEndDate,
                   status>>

NextSuggest ==
    \/ RunAnalyzeDataCoverage
    \/ RunDetectKnownSubscriptions
    \/ RunDetectSubscriptions
    \/ RunMerge
    \/ RunSuggestGroups

SpecSuggest == InitSuggest /\ [][NextSuggest]_vars

(***************************************************************************)
(* Specification SpecTwice: the pipeline, and then both detectors invoked a  *)
(* second time with the inputs of the first, on payments of two payees of    *)
(* one amount.  Transactions of one payee on one date are identical, so      *)
(* that the sorts by date have one result each.                              *)
(***************************************************************************)
MaxTwiceTxs == 5

TwiceTxs ==
    <<Tx(2025, 1, 15, <<"A", "b">>, -100),
      Tx(2025, 1, 15, <<"A", "c">>, -100),
      Tx(2025, 2, 15, <<"A", "b">>, -100),
      Tx(2025, 2, 15, <<"A", "c">>, -100),
      Tx(2025, 3, 31, <<"A", "b">>, -100),
      Tx(2025, 3, 31, <<"A", "c">>, -100)>>

\* The lists of at most n of the transactions s, in the order of s.
SubLists(s, n) ==
    {[k \in 1..Cardinality(chosen) |->
         s[CHOOSE i \in chosen : Cardinality({j \in chosen : j <= i}) = k]] :
        chosen \in {c \in SUBSET (1..Len(s)) : Cardinality(c) <= n}}

InitTwice ==
    /\ pc = "run"
    /\ transactions \in SubLists(TwiceTxs, MaxTwiceTxs)
    /\ tolerance = 10
    /\ cfg \in ListConfigs
    /\ IdleRun
    /\ IdleStatus
    /\ result = Nil

\* internal.DetectKnownSubscriptions(transactions, dateRange, cfg) and
\* internal.DetectSubscriptions(filtered, regularTxs, dateRange, tolerance),
\* invoked again with the arguments of the first invocation.
RunDetectAgain ==
    /\ pc = "merged"
    /\ \E known \in DetectKnownSubscriptions(transactions, dateRange, cfg),
          detected \in DetectSubscriptions(filtered, regularTxs, dateRange,
                                           tolerance) :
           result' = [known |-> known.subs, detected |-> detected]
    /\ pc' = "again"
    /\ UNCHANGED <<transactions, tolerance, cfg, completeMonths, dateRange,
                   knownSubs, matchedTexts, regularTxs, filtered,
                   subscriptions, lastPayment, typicalDay, dataEndDate,
                   status>>

NextTwice ==
    \/ RunAnalyzeDataCoverage
    \/ RunDetectKnownSubscriptions
    \/ RunDetectSubscriptions
    \/ RunMerge
    \/ RunDetectAgain

SpecTwice == InitTwice /\ [][NextTwice]_vars

(***************************************************************************)
(* Specification SpecLoad: LoadConfig on a file with at most two known       *)
(* rules, then the pipeline on payments that a built-in pattern, a rule of   *)
(* the file, both or neither match.                                          *)
(***************************************************************************)
MaxLoadRules == 2

MaxLoadTxs == 2

\* pattern: flix, max_amount: 150, after: 2025-01-01
UserRuleFlix ==
    RawRule(<<"f", "l", "i", "x">>, NilPtr, Ptr(150), <<>>,
            <<"2", "0", "2", "5", "-", "0", "1", "-", "0", "1">>)

\* pattern: NETFLIX, min_amount: 150
UserRuleNetflix ==
    RawRule(<<"N", "E", "T", "F", "L", "I", "X">>, Ptr(150), NilPtr, <<>>, <<>>)

LoadRules == {UserRuleFlix, UserRuleNetflix}

LoadTxs ==
    {Tx(2025, 1, 15, <<"N", "e", "t", "f", "l", "i", "x">>, -100),
     Tx(2025, 2, 15, <<"N", "E", "T", "F", "L", "I", "X">>, -200),
     Tx(2025, 1, 15, <<"G", "y", "m">>, -100),
     Tx(2025, 2, 15, <<"N", "e", "t", "f", "l", "i", "x">>, 100)}

\* use_default_known: absent, true or false
LoadFiles ==
    [UseDefaultKnown : {NilPtr, Ptr(TRUE), Ptr(FALSE)},
     Known : BoundedSeq(LoadRules, MaxLoadRules)]

InitLoad ==
    /\ pc = "load"
    /\ transactions \in BoundedSeq(LoadTxs, MaxLoadTxs)
    /\ tolerance = 10
    /\ cfg = NilPtr
    /\ IdleRun
    /\ IdleStatus
    /\ result \in LoadFiles

\* cfg, err = internal.LoadConfig(configPath)
RunLoadConfig ==
    /\ pc = "load"
    /\ cfg' = LoadConfig(result)
    /\ pc' = "run"
    /\ UNCHANGED <<transactions, tolerance, completeMonths, dateRange,
                   knownSubs, matchedTexts, regularTxs, filtered,
                   subscriptions, lastPayment, typicalDay, dataEndDate,
                   status, result>>

NextLoad ==
    \/ RunLoadConfig
    \/ RunAnalyzeDataCoverage
    \/ RunDetectKnownSubscriptions
    \/ RunDetectSubscriptions
    \/ RunMerge

SpecLoad == InitLoad /\ [][NextLoad]_vars

(***************************************************************************)
(* Specification SpecStats: the statistics both detectors compute, on a      *)
(* non-empty list of expenses with float64 amounts.                          *)
(***************************************************************************)
MaxStatTxs == 3

\* -99.9, -0.1, -100, -4.99 and -105 as float64
StatAmounts ==
    {F64(TRUE, <<1, 8, 15, 9, 9, 9, 9, 9, 9, 9, 9, 9, 9, 10>>, -46),
     F64(TRUE, <<1, 9, 9, 9, 9, 9, 9, 9, 9, 9, 9, 9, 9, 10>>, -56),
     F64(TRUE, <<1, 9, 0, 0, 0, 0, 0, 0, 0, 0, 0, 0, 0, 0>>, -46),
     F64(TRUE, <<1, 3, 15, 5, 12, 2, 8, 15, 5, 12, 2, 8, 15, 6>>, -50),
     F64(TRUE, <<1, 10, 4, 0, 0, 0, 0, 0, 0, 0, 0, 0, 0, 0>>, -46)}

StatTxs == {Tx(2025, 1, 15, <<"A", "b">>, a) : a \in StatAmounts}

InitStats ==
    /\ pc = "stats"
    /\ transactions \in BoundedSeq(StatTxs, MaxStatTxs) \ {<<>>}
    /\ tolerance = 0
    /\ cfg = NilPtr
    /\ IdleRun
    /\ IdleStatus
    /\ result = Nil

\* avgAmount := CalculateAverageAmount(txs)
\* minAmount, maxAmount := CalculateAmountRange(txs)
CallStatistics ==
    /\ pc = "stats"
    /\ result' = [AvgAmount |-> CalculateAverageAmountF64(transactions).val,
                  MinAmount |-> CalculateAmountRangeF64(transactions).min,
                  MaxAmount |-> CalculateAmountRangeF64(transactions).max,
                  inexact |-> CalculateAverageAmountF64(transactions).inexact]
    /\ pc' = "stats_done"
    /\ UNCHANGED <<transactions, tolerance, cfg, completeMonths, dateRange,
                   knownSubs, matchedTexts, regularTxs, filtered,
                   subscriptions, lastPayment, typicalDay, dataEndDate,
                   status>>

NextStats == CallStatistics

SpecStats == InitStats /\ [][NextStats]_vars

(***************************************************************************)
(* Specification SpecMatches: KnownSubscription.Matches on one rule, as      *)
(* LoadConfig leaves it, and one transaction.                                *)
(***************************************************************************)
MatchesBounds ==
    {ZeroTime,
     [year |-> 2025, month |-> 1, day |-> 15],
     [year |-> 2025, month |-> 2, day |-> 15]}

MatchesRules ==
    {RuleDated(<<"A">>, min, max, regex, before, after) :
        min \in {NilPtr, Ptr(100)}, max \in {NilPtr, Ptr(110)},
        regex \in {NilPtr, CompileKnown(<<"A">>)},
        before \in MatchesBounds, after \in MatchesBounds}

MatchesTxs ==
    {Tx(d[1], d[2], d[3], text, amount) :
        d \in {<<2024, 12, 31>>, <<2025, 1, 14>>, <<2025, 1, 15>>,
               <<2025, 1, 16>>, <<2025, 2, 15>>, <<2025, 3, 1>>},
        text \in {<<"a", "b">>, <<"C", "d">>},
        amount \in {-100, -150, 100}}

InitMatches ==
    /\ pc = "matches"
    /\ \E k \in MatchesRules : cfg = Ptr([Known |-> <<k>>])
    /\ \E tx \in MatchesTxs : transactions = <<tx>>
    /\ tolerance = 0
    /\ IdleRun
    /\ IdleStatus
    /\ result = Nil

\* result := cfg.Known[0].Matches(tx)
CallMatches ==
    /\ pc = "matches"
    /\ result' = Matches(cfg[1].Known[1], transactions[1])
    /\ pc' = "matches_done"
    /\ UNCHANGED <<transactions, tolerance, cfg, completeMonths, dateRange,
                   knownSubs, matchedTexts, regularTxs, filtered,
                   subscriptions, lastPayment, typicalDay, dataEndDate,
                   status>>

NextMatches == CallMatches

SpecMatches == InitMatches /\ [][NextMatches]_vars

(***************************************************************************)
(* Specification SpecDedup: deduplicateSuggestions on a list of candidate    *)
(* groups as findPrefixGroups leaves them, with distinct prefixes and        *)
(* distinct name sets of three names or more, in any order.                  *)
(***************************************************************************)
MaxDedupSuggestions == 3

\* A candidate group over names "N1".."N7", one expense a month.
DedupName(k) == <<"N", DecimalDigits[k + 1]>>

DedupGroup(prefix, ks) ==
    [Prefix |-> prefix,
     Pattern |-> GeneratePattern(prefix),
     Names |-> [i \in 1..Len(ks) |-> DedupName(ks[i])],
     MonthCount |-> Len(ks),
     Transactions |->
         [i \in 1..Len(ks) |-> Tx(2025, ks[i], 15, DedupName(ks[i]), -100)]]

DedupGroups ==
    {DedupGroup(<<"A", "b">>, <<1, 2, 3>>),
     DedupGroup(<<"A", "b", "c">>, <<1, 2, 4, 5>>),
     DedupGroup(<<"A", "b", "c", "d">>, <<1, 4, 6>>),
     DedupGroup(<<"X", "y">>, <<4, 5, 6>>),
     DedupGroup(<<"A", "b", "c", "d", "e">>, <<1, 2, 3, 7>>)}

InitDedup ==
    /\ pc = "dedup"
    /\ transactions = <<>>
    /\ tolerance = 10
    /\ cfg = NilPtr
    /\ IdleRun
    /\ IdleStatus
    /\ result \in {[suggestions |-> l] :
                      l \in {q \in BoundedSeq(DedupGroups, MaxDedupSuggestions) :
                                \A i, j \in 1..Len(q) : q[i] = q[j] => i = j}}

RunDeduplicateSuggestions ==
    /\ pc = "dedup"
    /\ \E kept \in DeduplicateSuggestions(result.suggestions) :
           result' = [suggestions |-> result.suggestions, kept |-> kept]
    /\ pc' = "deduplicated"
    /\ UNCHANGED <<transactions, tolerance, cfg, completeMonths, dateRange,
                   knownSubs, matchedTexts, regularTxs, filtered,
                   subscriptions, lastPayment, typicalDay, dataEndDate,
                   status>>

NextDedup == RunDeduplicateSuggestions

SpecDedup == InitDedup /\ [][NextDedup]_vars

(***************************************************************************)
(* Specification SpecSweep: DetermineStatus for one subscription as the data *)
(* grows: the end date starts at the last payment and advances by a day      *)
(* before each further call.  result is the list of the statuses returned.   *)
(***************************************************************************)
MaxSweepDays == 70

InitSweep ==
    /\ pc = "sweep"
    /\ transactions = <<>>
    /\ tolerance = 0
    /\ cfg = NilPtr
    /\ IdleRun
    /\ lastPayment \in StatusLastPayments
    /\ dataEndDate = lastPayment
    /\ typicalDay \in 1..31
    /\ status = Nil
    /\ result = <<>>

CallDetermineStatusNextDay ==
    /\ pc = "sweep"
    /\ Len(result) < MaxSweepDays
    /\ dataEndDate' = IF result = <<>> THEN dataEndDate
                      ELSE AddDate(dataEndDate, 0, 0, 1)
    /\ status' = DetermineStatus(lastPayment, typicalDay, dataEndDate')
    /\ result' = Append(result, status')
    /\ UNCHANGED <<pc, transactions, tolerance, cfg, completeMonths,
                   dateRange, knownSubs, matchedTexts, regularTxs, filtered,
                   subscriptions, lastPayment, typicalDay>>

NextSweep == CallDetermineStatusNextDay

SpecSweep == InitSweep /\ [][NextSweep]_vars

(***************************************************************************)
(* Specification SpecMemory: the pipeline and SuggestGroups with the lists   *)
(* in memory, on payments in any order of input.  result holds the heap and  *)
(* the slices of run(): txs (the loaded list), regular and complete;         *)
(* transactions, regularTxs and filtered are what these lists held when      *)
(* they were loaded or returned.                                              *)
(***************************************************************************)
MaxMemoryTxs == 3

MemoryTxs ==
    {Tx(2025, 1, 1, <<"A", "b", "c", " ", "d">>, -100),
     Tx(2025, 2, 15, <<"A", "b", "c", " ", "D">>, -100),
     Tx(2025, 3, 31, <<"A", "b", "c", " ", "e">>, -100),
     Tx(2025, 3, 31, <<"A", "b", "c", " ", "d">>, -100),
     Tx(2025, 2, 15, <<"A", "b", "c", " ", "f">>, -100),
     Tx(2025, 2, 20, <<"A", "b", "c", " ", "d">>, 100)}

\* pattern "f" without bounds
RuleF == Rule(<<"f">>, NilPtr, NilPtr, CompileKnown(<<"f">>))

InitMemory ==
    /\ pc = "run"
    /\ transactions \in BoundedSeq(MemoryTxs, MaxMemoryTxs)
    /\ tolerance = 10
    /\ cfg \in {NoRulesConfig, Ptr([Known |-> <<RuleF>>])}
    /\ IdleRun
    /\ IdleStatus
    /\ result = [heap |-> <<transactions>>, txs |-> 1, regular |-> 1,
                 complete |-> 1]

\* knownSubs, matchedTexts := internal.DetectKnownSubscriptions(...)
RunDetectKnownSubscriptionsInMemory ==
    /\ pc = "covered"
    /\ \E r \in DetectKnownSubscriptions(result.heap[result.txs], dateRange, cfg) :
           /\ knownSubs' = r.subs
           /\ matchedTexts' = r.matched
    /\ \E h \in DetectKnownSubscriptionsInMemory(result.heap, result.txs, cfg) :
           result' = [result EXCEPT !.heap = h]
    /\ pc' = "known"
    /\ UNCHANGED <<transactions, tolerance, cfg, completeMonths, dateRange,
                   regularTxs, filtered, subscriptions, lastPayment,
                   typicalDay, dataEndDate, status>>

\* regularTxs := internal.FilterOutMatched(transactions, matchedTexts)
RunFilterOutMatchedInMemory ==
    /\ pc = "known"
    /\ LET r == FilterOutMatchedInMemory(result.heap, result.txs, matchedTexts)
       IN  /\ result' = [result EXCEPT !.heap = r.heap, !.regular = r.slice]
           /\ regularTxs' = r.heap[r.slice]
    /\ pc' = "regular"
    /\ UNCHANGED <<transactions, tolerance, cfg, completeMonths, dateRange,
                   knownSubs, matchedTexts, filtered, subscriptions,
                   lastPayment, typicalDay, dataEndDate, status>>

\* filtered := internal.FilterToCompleteMonths(regularTxs, completeMonths)
RunFilterToCompleteMonthsInMemory ==
    /\ pc = "regular"
    /\ LET r == FilterToCompleteMonthsInMemory(result.heap, result.regular,
                                               completeMonths)
       IN  /\ result' = [result EXCEPT !.heap = r.heap, !.complete = r.slice]
           /\ filtered' = r.heap[r.slice]
    /\ pc' = "complete"
    /\ UNCHANGED <<transactions, tolerance, cfg, completeMonths, dateRange,
                   knownSubs, matchedTexts, regularTxs, subscriptions,
                   lastPayment, typicalDay, dataEndDate, status>>

\* subscriptions := internal.DetectSubscriptions(filtered, regularTxs, ...)
RunDetectSubscriptionsInMemory ==
    /\ pc = "complete"
    /\ subscriptions' \in
           DetectSubscriptions(result.heap[result.complete],
                               result.heap[result.regular], dateRange,
                               tolerance)
    /\ \E h \in DetectSubscriptionsInMemory(result.heap, result.complete,
                                             result.regular) :
           result' = [result EXCEPT !.heap = h]
    /\ pc' = "detected"
    /\ UNCHANGED <<transactions, tolerance, cfg, completeMonths, dateRange,
                   knownSubs, matchedTexts, regularTxs, filtered,
                   lastPayment, typicalDay, dataEndDate, status>>

\* suggestions := internal.SuggestGroups(transactions, params.Tolerance)
RunSuggestGroupsInMemory ==
    /\ pc = "merged"
    /\ \E suggestions \in SuggestGroups(result.heap[result.txs], tolerance),
          h \in SuggestGroupsInMemory(result.heap, result.txs) :
           result' = [heap |-> h, txs |-> result.txs,
                      regular |-> result.regular,
                      complete |-> result.complete,
                      suggestions |-> suggestions]
    /\ pc' = "suggested"
    /\ UNCHANGED <<transactions, tolerance, cfg, completeMonths, dateRange,
                   knownSubs, matchedTexts, regularTxs, filtered,
                   subscriptions, lastPayment, typicalDay, dataEndDate,
                   status>>

NextMemory ==
    \/ RunAnalyzeDataCoverage
    \/ RunDetectKnownSubscriptionsInMemory
    \/ RunFilterOutMatchedInMemory
    \/ RunFilterToCompleteMonthsInMemory
    \/ RunDetectSubscriptionsInMemory
    \/ RunMerge
    \/ RunSuggestGroupsInMemory

SpecMemory == InitMemory /\ [][NextMemory]_vars

(***************************************************************************)
(* Claims.                                                                 *)
(***************************************************************************)
\* The number of the calendar month of t, counted across years.
MonthIndex(t) == t.year * 12 + (t.month - 1)

MonthOfIndex(k) == <<k \div 12, (k % 12) + 1>>

EarliestDate(txs) ==
    CHOOSE t \in {txs[i].Date : i \in 1..Len(txs)} :
        \A j \in 1..Len(txs) : ~Before(txs[j].Date, t)

LatestDate(txs) ==
    CHOOSE t \in {txs[i].Date : i \in 1..Len(txs)} :
        \A j \in 1..Len(txs) : ~After(txs[j].Date, t)

\* The complete months C1 states for a non-empty list.
ExpectedCompleteMonths(txs) ==
    LET lo == EarliestDate(txs)
        hi == LatestDate(txs)
    IN  {MonthOfIndex(k) : k \in MonthIndex(lo)..(MonthIndex(hi) - 1)}
        \cup (IF hi.day = DaysIn(hi.year, hi.month)
                 THEN {<<hi.year, hi.month>>} ELSE {})

\* C1: for a non-empty transaction list in any order, AnalyzeDataCoverage
\* returns as complete months exactly the months from the month of the minimum
\* date up to but excluding the month of the maximum date, plus the month of
\* the maximum date iff its day is that month's last calendar day.
C1_CompleteMonthsExact ==
    (pc = "coverage_done" /\ Len(transactions) > 0) =>
        /\ Range(completeMonths) = ExpectedCompleteMonths(transactions)
        /\ Len(completeMonths) = Cardinality(ExpectedCompleteMonths(transactions))

\* A list whose earliest transaction is in the middle, spanning a year boundary with
\* an empty month in between and ending on the last day of a leap February.
C1_Witness ==
    /\ pc = "coverage_done"
    /\ Len(transactions) = 3
    /\ transactions[1].Date = [year |-> 2024, month |-> 2, day |-> 1]
    /\ transactions[2].Date = [year |-> 2023, month |-> 12, day |-> 15]
    /\ transactions[3].Date = [year |-> 2024, month |-> 2, day |-> 29]
    /\ completeMonths = <<<<2023, 12>>, <<2024, 1>>, <<2024, 2>>>>

Min2(a, b) == IF a < b THEN a ELSE b

\* C2: when the last payment's month is exactly one month before the month of
\* the data end date, DetermineStatus returns Stopped iff the data end date is
\* strictly after day min(typicalDay, days in the end month) of the end month
\* plus 5 calendar days, and Active otherwise.
C2_GracePeriod ==
    (pc = "status_done" /\ MonthIndex(dataEndDate) = MonthIndex(lastPayment) + 1) =>
        LET expectedDay ==
                Min2(typicalDay, DaysIn(dataEndDate.year, dataEndDate.month))
        IN  /\ status \in {StatusActive, StatusStopped}
            /\ status = StatusStopped <=> dataEndDate.day > expectedDay + 5

\* December to January, the end date six days after the typical day.
C2_Witness ==
    /\ pc = "status_done"
    /\ lastPayment.year = 2023 /\ lastPayment.month = 12
    /\ dataEndDate = [year |-> 2024, month |-> 1, day |-> 21]
    /\ typicalDay = 15
    /\ status = StatusStopped

\* C3: DetermineStatus returns Active whenever the last payment and the data
\* end date fall in the same calendar (year, month).
C3_SameMonthActive ==
    (/\ pc = "status_done"
     /\ lastPayment.year = dataEndDate.year
     /\ lastPayment.month = dataEndDate.month) => status = StatusActive

\* Same month, the end date far beyond the typical day plus the grace period.
C3_Witness ==
    /\ pc = "status_done"
    /\ lastPayment = [year |-> 2024, month |-> 3, day |-> 15]
    /\ dataEndDate = [year |-> 2024, month |-> 3, day |-> 31]
    /\ typicalDay = 1
    /\ status = StatusActive

\* C4: DetermineStatus returns Stopped whenever the month of the data end date
\* is two or more calendar months after the month of the last payment, counted
\* as 12 * year difference + month difference.
C4_TwoMonthsStopped ==
    (pc = "status_done" /\ MonthIndex(dataEndDate) - MonthIndex(lastPayment) >= 2) =>
        status = StatusStopped

\* November to January across the year boundary, the data ending on the first
\* day of the month, well before the typical day.
C4_Witness ==
    /\ pc = "status_done"
    /\ lastPayment.year = 2023 /\ lastPayment.month = 11
    /\ dataEndDate = [year |-> 2024, month |-> 1, day |-> 1]
    /\ typicalDay = 28
    /\ status = StatusStopped

\* The number of transactions of txs dated in the calendar month <<year, month>>.
CountInMonth(txs, ym) ==
    Cardinality({i \in 1..Len(txs) :
        txs[i].Date.year = ym[1] /\ txs[i].Date.month = ym[2]})

MonthsOf(txs) == {<<txs[i].Date.year, txs[i].Date.month>> : i \in 1..Len(txs)}

\* C5: IsMonthlyPattern returns false iff at least one calendar year-month
\* that contains a transaction contains two or more of them; gaps never cause
\* rejection, a single transaction and the empty list return true.
C5_MonthlyPatternExact ==
    pc = "monthly_done" =>
        /\ result \in BOOLEAN
        /\ result = FALSE <=>
               \E ym \in MonthsOf(transactions) : CountInMonth(transactions, ym) >= 2
        /\ Len(transactions) <= 1 => result = TRUE

\* One payment in each of January 2024, January 2025 and March 2025: the same
\* month of two years, and a gap, are accepted.
C5_Witness ==
    /\ pc = "monthly_done"
    /\ Len(transactions) = 3
    /\ transactions[1].Date = [year |-> 2025, month |-> 1, day |-> 15]
    /\ transactions[2].Date = [year |-> 2024, month |-> 1, day |-> 15]
    /\ transactions[3].Date = [year |-> 2025, month |-> 3, day |-> 15]
    /\ result = TRUE

\* | |curr| - |prev| | / |prev| <= tolerance as float64 evaluates it: a
\* division by zero gives +Inf or NaN, and neither is <= tolerance.
RatioWithin(prevAmount, currAmount, tol) ==
    LET prev == IF prevAmount < 0 THEN -prevAmount ELSE prevAmount
        curr == IF currAmount < 0 THEN -currAmount ELSE currAmount
        d == IF curr < prev THEN prev - curr ELSE curr - prev
    IN  prev # 0 /\ d * 100 <= tol * prev

\* C6 as stated: AmountsWithinTolerance returns true exactly when the list is
\* non-empty and every consecutive pair satisfies
\* | |curr| - |prev| | / |prev| <= tolerance.
C6_AsStated ==
    pc = "tolerance_done" =>
        (result = TRUE <=>
            /\ Len(transactions) > 0
            /\ \A i \in 2..Len(transactions) :
                   RatioWithin(transactions[i - 1].Amount,
                               transactions[i].Amount, tolerance))

\* C6 amended: AmountsWithinTolerance returns true exactly when the list is
\* non-empty and every consecutive pair either satisfies
\* | |curr| - |prev| | / |prev| <= tolerance or has both amounts zero (0/0 is
\* NaN, which is not greater than the tolerance); it returns false for the
\* empty list and true for a one-element list.
C6_Amended ==
    pc = "tolerance_done" =>
        /\ result \in BOOLEAN
        /\ result = TRUE <=>
            /\ Len(transactions) > 0
            /\ \A i \in 2..Len(transactions) :
                   \/ RatioWithin(transactions[i - 1].Amount,
                                  transactions[i].Amount, tolerance)
                   \/ transactions[i - 1].Amount = 0 /\ transactions[i].Amount = 0
        /\ Len(transactions) = 0 => result = FALSE
        /\ Len(transactions) = 1 => result = TRUE

\* 100, 105, 110, 115 passes at 0.10 although the first-to-last drift is 15%.
C6_Witness ==
    /\ pc = "tolerance_done"
    /\ tolerance = 10
    /\ Len(transactions) = 4
    /\ transactions[1].Amount = -100
    /\ transactions[2].Amount = -105
    /\ transactions[3].Amount = -110
    /\ transactions[4].Amount = -115
    /\ result = TRUE

\* The number of expenses of txs whose lowercased text is key.
ExpenseCount(txs, key) ==
    Cardinality({i \in 1..Len(txs) :
        ToLower(txs[i].Text) = key /\ txs[i].Amount < 0})

\* The number of expenses of txs with this key dated in month ym.
ExpenseCountInMonth(txs, key, ym) ==
    Cardinality({i \in 1..Len(txs) :
        /\ ToLower(txs[i].Text) = key
        /\ txs[i].Amount < 0
        /\ <<txs[i].Date.year, txs[i].Date.month>> = ym})

SubscriptionFields ==
    {"Name", "AvgAmount", "LatestAmount", "MinAmount", "MaxAmount",
     "Transactions", "StartDate", "LastDate", "TypicalDay", "Status"}

Reported(subs, key) == \E i \in 1..Len(subs) : ToLower(subs[i].Name) = key

\* C7: DetectSubscriptions reports a payee only if its case-insensitive name
\* group holds at least 2 expenses inside the complete-months input; what it
\* reports is a full record, never a partial one.
C7_AtLeastTwoExpenses ==
    pc = "detected" =>
        \A i \in 1..Len(subscriptions) :
            /\ ExpenseCount(filtered, ToLower(subscriptions[i].Name)) >= 2
            /\ DOMAIN subscriptions[i] = SubscriptionFields
            /\ subscriptions[i].Status \in {StatusActive, StatusStopped}

\* A payee with one payment in a complete month and one in the incomplete
\* current month is omitted, while another payee is reported.
C7_Witness ==
    /\ pc = "detected"
    /\ Len(subscriptions) = 1
    /\ \E key \in NameKeys(transactions) :
           /\ ExpenseCount(transactions, key) = 2
           /\ ExpenseCount(filtered, key) = 1
           /\ ~Reported(subscriptions, key)

\* C8: a payee is rejected when any calendar month of its full expense
\* history (allTxs, the incomplete current month included) holds two or more
\* expenses, also when its complete-months expenses are one per month.
C8_FullHistoryMonthlyCheck ==
    pc = "detected" =>
        \A key \in NameKeys(regularTxs) :
            (\E ym \in MonthsOf(regularTxs) :
                 ExpenseCountInMonth(regularTxs, key, ym) >= 2)
            => ~Reported(subscriptions, key)

\* One expense in each of two complete months, within tolerance, and two in
\* the incomplete current month: not reported.
C8_Witness ==
    /\ pc = "detected"
    /\ \E key \in NameKeys(filtered) :
           /\ ExpenseCount(filtered, key) = 2
           /\ \A ym \in MonthsOf(filtered) :
                  ExpenseCountInMonth(filtered, key, ym) <= 1
           /\ AmountsWithinTolerance(
                  FilterExpenses(GroupByName(filtered, key)), tolerance)
           /\ \E ym \in MonthsOf(regularTxs) \ Range(completeMonths) :
                  ExpenseCountInMonth(regularTxs, key, ym) = 2
           /\ ~Reported(subscriptions, key)

InSubscription(subs, tx) ==
    \E i \in 1..Len(subs) : tx \in Range(subs[i].Transactions)

\* C9: DetectKnownSubscriptions reports every expense that matches a rule in a
\* subscription, whatever the number of occurrences, the completeness of its
\* month, the payments per month and the price changes.
C9_KnownReportedAtOnce ==
    pc = "known" =>
        \A i \in 1..Len(transactions) :
            (/\ transactions[i].Amount < 0
             /\ cfg # NilPtr
             /\ \E j \in 1..Len(cfg[1].Known) :
                    Matches(cfg[1].Known[j], transactions[i]))
            => InSubscription(knownSubs, transactions[i])

\* A single matching expense, dated in the incomplete current month, is
\* reported as a known subscription.
C9_Witness ==
    /\ pc = "known"
    /\ Len(knownSubs) = 1
    /\ Len(knownSubs[1].Transactions) = 1
    /\ FormatMonth(knownSubs[1].Transactions[1].Date) \notin Range(completeMonths)

\* text matches the rule's pattern, letter case ignored.
ContainsIgnoringCase(text, pattern) ==
    \E i \in 0..(Len(text) - Len(pattern)) :
        \A j \in 1..Len(pattern) : LowerChar(text[i + j]) = LowerChar(pattern[j])

\* The conditions C10 and C11 state for a transaction to match a rule.
StatedMatch(k, tx) ==
    LET amt == IF tx.Amount < 0 THEN -tx.Amount ELSE tx.Amount
    IN  /\ k.regex # NilPtr
        /\ ContainsIgnoringCase(tx.Text, k.Pattern)
        /\ k.MinAmount # NilPtr => amt >= k.MinAmount[1]
        /\ k.MaxAmount # NilPtr => amt <= k.MaxAmount[1]
        /\ k.beforeDate # ZeroTime => Before(tx.Date, k.beforeDate)
        /\ k.afterDate # ZeroTime => ~Before(tx.Date, k.afterDate)

\* C10: a transaction is in a known subscription exactly if its amount is
\* strictly negative and some rule has a compiled pattern that its text
\* matches and amount bounds, if any, that hold its absolute amount, both ends
\* inclusive; a rule without a compiled pattern matches nothing.
C10_KnownAttribution ==
    pc = "known" =>
        \A i \in 1..Len(transactions) :
            InSubscription(knownSubs, transactions[i]) <=>
                /\ transactions[i].Amount < 0
                /\ cfg # NilPtr
                /\ \E j \in 1..Len(cfg[1].Known) :
                       StatedMatch(cfg[1].Known[j], transactions[i])

\* Bounds [100, 110]: the payments of 100 and of 110 are in the subscription,
\* the payment of 150 of the same payee is not.
C10_Witness ==
    /\ pc = "known"
    /\ cfg = Ptr([Known |-> <<RuleBounded>>])
    /\ Len(knownSubs) = 1
    /\ {tx.Amount : tx \in Range(knownSubs[1].Transactions)} = {-100, -110}
    /\ \E i \in 1..Len(transactions) :
           /\ transactions[i].Amount = -150
           /\ ToLower(transactions[i].Text) \in matchedTexts

FirstStatedRule(c, tx) ==
    IF c = NilPtr \/ tx.Amount >= 0 THEN 0
    ELSE LET hits == {j \in 1..Len(c[1].Known) : StatedMatch(c[1].Known[j], tx)}
         IN  IF hits = {} THEN 0
             ELSE CHOOSE j \in hits : \A h \in hits : j <= h

\* The positions in txs of the expenses whose first matching rule has the
\* pattern string p.
PoolOf(c, txs, p) ==
    {i \in 1..Len(txs) :
        /\ FirstStatedRule(c, txs[i]) # 0
        /\ c[1].Known[FirstStatedRule(c, txs[i])].Pattern = p}

\* The pattern strings some expense of txs is attributed to.
WinningPatterns(c, txs) ==
    IF c = NilPtr THEN {}
    ELSE {p \in {c[1].Known[j].Pattern : j \in 1..Len(c[1].Known)} :
             PoolOf(c, txs, p) # {}}

\* C12: every expense goes to the first rule in list order that it matches
\* and to no other; the expenses attributed to rules of one pattern string
\* form exactly one subscription whatever their texts, so there is one
\* subscription per pattern string that won an expense, named by the text of
\* a pooled transaction bearing the latest date.
C12_FirstRulePooling ==
    pc = "known" =>
        /\ Len(knownSubs) = Cardinality(WinningPatterns(cfg, transactions))
        /\ \A p \in WinningPatterns(cfg, transactions) :
               \E s \in 1..Len(knownSubs) :
                   LET pooled == knownSubs[s].Transactions
                   IN  /\ Len(pooled) = Cardinality(PoolOf(cfg, transactions, p))
                       /\ Range(pooled) =
                              {transactions[i] : i \in PoolOf(cfg, transactions, p)}
                       /\ \E n \in 1..Len(pooled) :
                              /\ knownSubs[s].Name = pooled[n].Text
                              /\ \A m \in 1..Len(pooled) :
                                     ~After(pooled[m].Date, pooled[n].Date)

\* Rules "A" in [100, 110] and then "b": the payment of 100 that matches both
\* is pooled with another payee's payment under "A", the payment of 150 goes
\* to "b".
C12_Witness ==
    /\ pc = "known"
    /\ cfg = Ptr([Known |-> <<RuleBounded, RuleUnbounded>>])
    /\ Len(knownSubs) = 2
    /\ \E s \in 1..2 :
           /\ Cardinality({tx.Text : tx \in Range(knownSubs[s].Transactions)}) = 2
           /\ \E tx \in Range(knownSubs[s].Transactions) :
                  Matches(RuleBounded, tx) /\ Matches(RuleUnbounded, tx)
    /\ \E s \in 1..2 :
           \A tx \in Range(knownSubs[s].Transactions) : tx.Amount = -150

\* The number of positions of the list txs that hold tx.
Occurrences(txs, tx) == Cardinality({i \in 1..Len(txs) : txs[i] = tx})

\* The subscriptions of the merged result that DetectSubscriptions produced.
PatternDetected ==
    SubSeq(subscriptions, Len(knownSubs) + 1, Len(subscriptions))

\* C13: in the merged result no pattern-detected subscription holds a
\* transaction whose lowercased text is in the matched set, and no transaction
\* is in the Transactions list of two subscriptions, nor in one list more
\* often than the input holds it.
C13_OnePathPerTransaction ==
    pc = "merged" =>
        /\ SubSeq(subscriptions, 1, Len(knownSubs)) = knownSubs
        /\ \A s \in 1..Len(PatternDetected) :
               \A tx \in Range(PatternDetected[s].Transactions) :
                   ToLower(tx.Text) \notin matchedTexts
        /\ \A s, t \in 1..Len(subscriptions) :
               s # t => Range(subscriptions[s].Transactions)
                            \cap Range(subscriptions[t].Transactions) = {}
        /\ \A s \in 1..Len(subscriptions) :
               \A tx \in Range(subscriptions[s].Transactions) :
                   Occurrences(subscriptions[s].Transactions, tx)
                       <= Occurrences(transactions, tx)

\* The merged result holds a known subscription and a pattern-detected one.
C13_Witness ==
    /\ pc = "merged"
    /\ Len(knownSubs) = 1
    /\ Len(subscriptions) = 2
    /\ matchedTexts # {}
    /\ Len(subscriptions[2].Transactions) = 2

\* The list a detector returned is ordered: no stopped subscription before an
\* active one, and among equal status the absolute average never increases.
OrderedList(subs) ==
    \A i, j \in 1..Len(subs) :
        i < j =>
            /\ ~(subs[i].Status = StatusStopped /\ subs[j].Status = StatusActive)
            /\ subs[i].Status = subs[j].Status =>
                   Abs(subs[i].AvgAmount.num) * subs[j].AvgAmount.den
                       >= Abs(subs[j].AvgAmount.num) * subs[i].AvgAmount.den

\* C14: the list DetectKnownSubscriptions returns and the list
\* DetectSubscriptions returns each have every active subscription before
\* every stopped one and, among equal status, non-increasing absolute average
\* amounts.
C14_OutputOrdering ==
    /\ pc = "known" => OrderedList(knownSubs)
    /\ pc = "detected" => OrderedList(subscriptions)

\* DetectSubscriptions returned an active subscription followed by a stopped
\* one.
C14_Witness ==
    /\ pc = "detected"
    /\ Len(subscriptions) = 2
    /\ subscriptions[1].Status = StatusActive
    /\ subscriptions[2].Status = StatusStopped

\* The lifecycle fields of one subscription agree with its Transactions list.
LifecycleConsistent(sub) ==
    LET txs == sub.Transactions
    IN  /\ Len(txs) >= 1
        /\ \A i, j \in 1..Len(txs) : i < j => ~After(txs[i].Date, txs[j].Date)
        /\ \E i \in 1..Len(txs) : txs[i].Date = sub.StartDate
        /\ \A i \in 1..Len(txs) : ~Before(txs[i].Date, sub.StartDate)
        /\ \E i \in 1..Len(txs) : txs[i].Date = sub.LastDate
        /\ \A i \in 1..Len(txs) : ~After(txs[i].Date, sub.LastDate)
        /\ \E i \in 1..Len(txs) :
               txs[i].Date = sub.LastDate /\ txs[i].Amount = sub.LatestAmount

\* C15: every subscription of either detector has a non-empty Transactions
\* list in ascending date order, StartDate the earliest and LastDate the
\* latest date of the list, and LatestAmount the amount of a transaction of
\* the list that bears the latest date.
C15_LifecycleFields ==
    /\ pc = "known" =>
           \A s \in 1..Len(knownSubs) : LifecycleConsistent(knownSubs[s])
    /\ pc = "detected" =>
           \A s \in 1..Len(subscriptions) : LifecycleConsistent(subscriptions[s])

\* A known subscription of three payments that the input lists latest first,
\* two of them on the earliest date with different amounts.
C15_Witness ==
    /\ pc = "known"
    /\ Len(transactions) = 3
    /\ After(transactions[1].Date, transactions[2].Date)
    /\ Len(knownSubs) = 1
    /\ Len(knownSubs[1].Transactions) = 3
    /\ knownSubs[1].Transactions[1].Date = knownSubs[1].Transactions[2].Date
    /\ knownSubs[1].Transactions[1].Amount # knownSubs[1].Transactions[2].Amount
    /\ knownSubs[1].StartDate # knownSubs[1].LastDate

\* x <= y on float64 values.
F64LessEq(x, y) == ~F64Less(y, x)

\* C16 as stated: 0 < MinAmount <= MaxAmount, both absolute values, the
\* absolute average between them, and the average strictly negative.
C16_AsStated ==
    pc = "stats_done" =>
        /\ F64Less(F64Zero, result.MinAmount)
        /\ F64LessEq(result.MinAmount, result.MaxAmount)
        /\ F64LessEq(result.MinAmount, F64Abs(result.AvgAmount))
        /\ F64LessEq(F64Abs(result.AvgAmount), result.MaxAmount)
        /\ F64Less(result.AvgAmount, F64Zero)

\* C16, amended: 0 < MinAmount <= MaxAmount, both the absolute values of
\* amounts of the list, and the average is strictly negative; its absolute
\* value lies between MinAmount and MaxAmount whenever the float64 sum and
\* quotient are computed without rounding.
C16_Amended ==
    pc = "stats_done" =>
        /\ F64Less(F64Zero, result.MinAmount)
        /\ F64LessEq(result.MinAmount, result.MaxAmount)
        /\ \E i \in 1..Len(transactions) :
               result.MinAmount = F64Abs(transactions[i].Amount)
        /\ \E i \in 1..Len(transactions) :
               result.MaxAmount = F64Abs(transactions[i].Amount)
        /\ \A i \in 1..Len(transactions) :
               /\ F64LessEq(result.MinAmount, F64Abs(transactions[i].Amount))
               /\ F64LessEq(F64Abs(transactions[i].Amount), result.MaxAmount)
        /\ F64Less(result.AvgAmount, F64Zero)
        /\ ~result.inexact =>
               /\ F64LessEq(result.MinAmount, F64Abs(result.AvgAmount))
               /\ F64LessEq(F64Abs(result.AvgAmount), result.MaxAmount)

\* Different amounts whose average is computed without rounding and lies
\* strictly between the smallest and the largest.
C16_Witness ==
    /\ pc = "stats_done"
    /\ Len(transactions) = 2
    /\ ~result.inexact
    /\ F64Less(result.MinAmount, F64Abs(result.AvgAmount))
    /\ F64Less(F64Abs(result.AvgAmount), result.MaxAmount)

\* The set of suggestions of a list: prefix, covered names, month count.
SuggestionSet(suggestions) ==
    {[Prefix |-> suggestions[i].Prefix,
      Names |-> Range(suggestions[i].Names),
      MonthCount |-> suggestions[i].MonthCount] : i \in 1..Len(suggestions)}

\* C17: on an empty transaction list AnalyzeDataCoverage returns no complete
\* month and the zero DateRange, and DetectKnownSubscriptions,
\* DetectSubscriptions and SuggestGroups each return an empty result.
C17_EmptyInput ==
    transactions = <<>> =>
        /\ pc # "run" => completeMonths = <<>> /\ dateRange = ZeroDateRange
        /\ pc \notin {"run", "covered"} => knownSubs = <<>> /\ matchedTexts = {}
        /\ pc \notin {"run", "covered", "known"} => subscriptions = <<>>
        /\ pc = "suggested" => result[1] = <<>> /\ result[2] = <<>>

\* The four functions have returned on the empty list, with a rule configured.
C17_Witness ==
    /\ transactions = <<>>
    /\ cfg # NoRulesConfig
    /\ pc = "suggested"

C19_AsStated ==
    pc = "again" =>
        /\ result.known = knownSubs
        /\ knownSubs \o result.detected = subscriptions

\* The built-in rules that tx matches by the text: their positions.
BuiltInHits(tx) ==
    {i \in 1..Len(DefaultKnownSubscriptions) :
        ContainsIgnoringCase(tx.Text, DefaultKnownSubscriptions[i].Pattern)}

\* The rule at position i of the loaded list is the rule k as written.
SameRule(loaded, k) ==
    /\ loaded.Pattern = k.Pattern
    /\ loaded.MinAmount = k.MinAmount
    /\ loaded.MaxAmount = k.MaxAmount

\* The known rules of the loaded configuration are the rules of the list
\* stated, in its order.
LoadedAre(stated) ==
    /\ Len(cfg[1].Known) = Len(stated)
    /\ \A i \in 1..Len(stated) : SameRule(cfg[1].Known[i], stated[i])

ExpensesOf(txs, key) ==
    {i \in 1..Len(txs) : ToLower(txs[i].Text) = key /\ txs[i].Amount < 0}

\* The sum of f over the finite set S.
RECURSIVE SumOver(_, _)
SumOver(f, S) ==
    IF S = {} THEN 0
    ELSE LET x == CHOOSE y \in S : TRUE
         IN  f[x] + SumOver(f, S \ {x})

AbsAmount(tx) == IF tx.Amount < 0 THEN -tx.Amount ELSE tx.Amount

\* sub describes the payee key: statistics over the expenses of complete,
\* lifecycle over the expenses of full.
DescribesPayee(sub, complete, full, key) ==
    LET comp == ExpensesOf(complete, key)
        all == ExpensesOf(full, key)
        n == Cardinality(comp)
        days == SumOver([i \in comp |-> complete[i].Date.day], comp)
    IN  /\ sub.AvgAmount.num * n
               = sub.AvgAmount.den * SumOver([i \in comp |-> complete[i].Amount], comp)
        /\ \E i \in comp : AbsAmount(complete[i]) = sub.MinAmount
        /\ \A i \in comp : AbsAmount(complete[i]) >= sub.MinAmount
        /\ \E i \in comp : AbsAmount(complete[i]) = sub.MaxAmount
        /\ \A i \in comp : AbsAmount(complete[i]) <= sub.MaxAmount
        /\ sub.TypicalDay * n <= days
        /\ days < (sub.TypicalDay + 1) * n
        /\ \E i \in all : full[i].Date = sub.StartDate
        /\ \A i \in all : ~Before(full[i].Date, sub.StartDate)
        /\ \E i \in all :
               full[i].Date = sub.LastDate /\ full[i].Amount = sub.LatestAmount
        /\ \A i \in all : ~Before(sub.LastDate, full[i].Date)
        /\ Len(sub.Transactions) = Cardinality(all)
        /\ \A tx \in Range(sub.Transactions) :
               Occurrences(sub.Transactions, tx)
                   = Cardinality({i \in all : full[i] = tx})

\* C21: every subscription DetectSubscriptions returns has AvgAmount,
\* MinAmount, MaxAmount and TypicalDay computed over the payee's expenses in
\* the complete months, and StartDate, LastDate, LatestAmount and
\* Transactions taken from the payee's full expense list.
C21_StatisticsAndLifecycle ==
    pc = "detected" =>
        \A i \in 1..Len(subscriptions) :
            DescribesPayee(subscriptions[i], filtered, regularTxs,
                           ToLower(subscriptions[i].Name))

\* A subscription whose payment in the incomplete current month changes the
\* mean day: days 15 and 15 in the complete months, day 10 after them.
C21_Witness ==
    /\ pc = "detected"
    /\ \E i \in 1..Len(subscriptions) :
           /\ subscriptions[i].TypicalDay = 15
           /\ subscriptions[i].LastDate.day = 10
           /\ Len(subscriptions[i].Transactions) = 3
           /\ ExpenseCount(filtered, ToLower(subscriptions[i].Name)) = 2

\* The expenses of the payee key in txs are at most one in a month.
OnePerMonth(txs, key) ==
    \A ym \in MonthsOf(txs) : ExpenseCountInMonth(txs, key, ym) <= 1

\* The expenses at i and j of txs follow each other in date order among the
\* expenses of the payee key.
FollowsByDate(txs, key, i, j) ==
    /\ Before(txs[i].Date, txs[j].Date)
    /\ \A k \in ExpensesOf(txs, key) :
           ~(Before(txs[i].Date, txs[k].Date) /\ Before(txs[k].Date, txs[j].Date))

\* C22: a payee with two or more expenses in the complete months, one
\* expense a month over its full history, and consecutive complete-months
\* amounts within the tolerance is reported, whatever its payment in the
\* incomplete current month; LatestAmount is the amount of its latest expense.
C22_ToleranceOnCompleteMonths ==
    pc = "detected" =>
        \A key \in NameKeys(filtered) :
            (/\ ExpenseCount(filtered, key) >= 2
             /\ OnePerMonth(regularTxs, key)
             /\ \A i, j \in ExpensesOf(filtered, key) :
                    FollowsByDate(filtered, key, i, j) =>
                        RatioWithin(filtered[i].Amount, filtered[j].Amount,
                                    tolerance))
            => \E n \in 1..Len(subscriptions) :
                   /\ ToLower(subscriptions[n].Name) = key
                   /\ \E i \in ExpensesOf(regularTxs, key) :
                          /\ regularTxs[i].Amount = subscriptions[n].LatestAmount
                          /\ \A j \in ExpensesOf(regularTxs, key) :
                                 ~Before(regularTxs[i].Date, regularTxs[j].Date)

\* 100 and 100 in the complete months, 200 in the current month, at a
\* tolerance of 10%: reported, with the latest amount above MaxAmount.
C22_Witness ==
    /\ pc = "detected"
    /\ tolerance = 10
    /\ \E n \in 1..Len(subscriptions) :
           /\ subscriptions[n].LatestAmount = -200
           /\ subscriptions[n].MaxAmount = 100
           /\ FormatMonth(subscriptions[n].LastDate) \notin Range(completeMonths)

\* C23: payee texts that differ only in letter case form one group and at
\* most one subscription, named by the text of the last transaction with
\* that key in the order of the full transaction list.
C23_CaseInsensitiveGrouping ==
    pc = "detected" =>
        /\ \A i, j \in 1..Len(subscriptions) :
               ToLower(subscriptions[i].Name) = ToLower(subscriptions[j].Name)
                   => i = j
        /\ \A i \in 1..Len(subscriptions) :
               \E m \in 1..Len(regularTxs) :
                   /\ regularTxs[m].Text = subscriptions[i].Name
                   /\ \A k \in (m + 1)..Len(regularTxs) :
                          ToLower(regularTxs[k].Text)
                              # ToLower(subscriptions[i].Name)

\* A subscription over two spellings, named by the spelling that comes last
\* in the input and is not that of its latest payment.
C23_Witness ==
    /\ pc = "detected"
    /\ \E i \in 1..Len(subscriptions) :
           LET txs == subscriptions[i].Transactions
           IN  /\ \E a, b \in 1..Len(txs) : txs[a].Text # txs[b].Text
               /\ txs[Len(txs)].Text # subscriptions[i].Name

\* The expenses of txs with exactly this text: their number.
ExactExpenseCount(txs, name) ==
    Cardinality({i \in 1..Len(txs) : txs[i].Text = name /\ txs[i].Amount < 0})

\* C24: every suggestion covers at least 3 distinct names, each the exact
\* text of 1 or 2 expenses of the input, and pools expenses of these names
\* only: no income and no text with 3 or more expenses is in a suggestion.
C24_OrphansOnly ==
    pc = "suggested" =>
        \A r \in 1..2 : \A n \in 1..Len(result[r]) :
            LET s == result[r][n]
            IN  /\ Cardinality(Range(s.Names)) >= 3
                /\ \A name \in Range(s.Names) :
                       ExactExpenseCount(transactions, name) \in {1, 2}
                /\ \A tx \in Range(s.Transactions) :
                       /\ tx.Amount < 0
                       /\ tx.Text \in Range(s.Names)
                       /\ tx \in Range(transactions)

\* Three orphan names are suggested under the first word they share with a
\* payee that has three expenses of its own.
C24_Witness ==
    /\ pc = "suggested"
    /\ Len(result[1]) = 1
    /\ \E i \in 1..Len(transactions) :
           /\ ExactExpenseCount(transactions, transactions[i].Text) = 3
           /\ Fields(transactions[i].Text)[1] = result[1][1].Prefix

\* C25: the transactions of every suggestion are at most one in a calendar
\* month, consecutive amounts in date order are within the tolerance, and
\* MonthCount is their number, which is at least 3.
C25_SuggestionsLookLikeSubscriptions ==
    pc = "suggested" =>
        \A r \in 1..2 : \A n \in 1..Len(result[r]) :
            LET txs == result[r][n].Transactions
            IN  /\ \A i, j \in 1..Len(txs) :
                       FormatMonth(txs[i].Date) = FormatMonth(txs[j].Date)
                           => i = j
                /\ \A i, j \in 1..Len(txs) :
                       (/\ Before(txs[i].Date, txs[j].Date)
                        /\ \A k \in 1..Len(txs) :
                               ~(Before(txs[i].Date, txs[k].Date)
                                   /\ Before(txs[k].Date, txs[j].Date)))
                       => RatioWithin(txs[i].Amount, txs[j].Amount, tolerance)
                /\ result[r][n].MonthCount = Len(txs)
                /\ Len(txs) >= 3

\* One group is suggested while another, of three names whose amounts leave
\* the tolerance, is not.
C25_Witness ==
    /\ pc = "suggested"
    /\ tolerance = 10
    /\ Len(result[1]) = 1
    /\ Cardinality(OrphanNames(FilterExpenses(transactions))) = 6
    /\ \E i \in 1..Len(transactions) : transactions[i].Amount = -130

\* The names of a candidate that no kept candidate with a prefix at most as
\* long covers.
UncoveredNames(c, kept) ==
    Range(c.Names) \
        UNION {Range(kept[i].Names) :
                  i \in {k \in 1..Len(kept) :
                            Len(kept[k].Prefix) <= Len(c.Prefix)}}

\* C26: the kept candidates are candidates of the input, in ascending order
\* of prefix length; each has more than half of its names outside the
\* candidates kept before it, every dropped one has at most half of its
\* names outside the kept candidates that are not longer; the first kept has
\* the shortest prefix of the input, so a non-empty input keeps something.
C26_DeduplicateSuggestions ==
    pc = "deduplicated" =>
        LET in == result.suggestions
            out == result.kept
        IN  /\ Range(out) \subseteq Range(in)
            /\ \A i, j \in 1..Len(out) : out[i] = out[j] => i = j
            /\ in # <<>> => out # <<>>
            /\ \A i, j \in 1..Len(out) :
                   i < j => Len(out[i].Prefix) <= Len(out[j].Prefix)
            /\ out # <<>> =>
                   \A c \in Range(in) : Len(out[1].Prefix) <= Len(c.Prefix)
            /\ \A k \in 1..Len(out) :
                   2 * Cardinality(Range(out[k].Names) \
                           UNION {Range(out[i].Names) : i \in 1..(k - 1)})
                       > Len(out[k].Names)
            /\ \A c \in Range(in) \ Range(out) :
                   2 * Cardinality(UncoveredNames(c, out)) <= Len(c.Names)

\* A candidate with exactly half of its names new is dropped, and one with
\* two new names of three is kept after a shorter one.
C26_Witness ==
    /\ pc = "deduplicated"
    /\ Len(result.kept) = 2
    /\ \E c \in Range(result.suggestions) \ Range(result.kept) :
           2 * Cardinality(UncoveredNames(c, result.kept)) = Len(c.Names)

\* C27: with the last payment and the typical day fixed, the statuses for
\* the end dates from the last payment on, day by day, are Active up to some
\* day and Stopped on every later day.
C27_StatusMonotone ==
    pc = "sweep" =>
        \A i, j \in 1..Len(result) :
            (i < j /\ result[i] = StatusStopped) => result[j] = StatusStopped

\* The status has turned to Stopped in the month after the payment, when the
\* grace period ran out, and the end date has passed into the month after.
C27_Witness ==
    /\ pc = "sweep"
    /\ status = StatusStopped
    /\ result[1] = StatusActive
    /\ MonthsDiff(dataEndDate, lastPayment) = 2
    /\ \E i \in 1..Len(result) :
           /\ result[i] = StatusStopped
           /\ MonthsDiff(AddDate(lastPayment, 0, 0, i - 1), lastPayment) = 1

\* Some expense of the input with the lowercased text of tx matches a known
\* rule.
TextMatchedByRule(tx) ==
    \E e \in Range(transactions) :
        /\ e.Amount < 0
        /\ cfg # NilPtr
        /\ \E i \in 1..Len(cfg[1].Known) : Matches(cfg[1].Known[i], e)
        /\ ToLower(e.Text) = ToLower(tx.Text)

\* tx itself is an expense that a known rule matches.
MatchedByRule(tx) ==
    /\ tx.Amount < 0
    /\ cfg # NilPtr
    /\ \E i \in 1..Len(cfg[1].Known) : Matches(cfg[1].Known[i], tx)

\* C28: a transaction whose lowercased text is that of an expense matching a
\* known rule is not handed to the pattern detector; if no rule matches the
\* transaction itself, no subscription of the merged result holds it.
C28_MatchedTextLeavesDetection ==
    pc = "merged" =>
        \A tx \in Range(transactions) :
            TextMatchedByRule(tx) =>
                /\ tx \notin Range(regularTxs)
                /\ tx \notin Range(filtered)
                /\ ~MatchedByRule(tx) =>
                       \A s \in 1..Len(subscriptions) :
                           tx \notin Range(subscriptions[s].Transactions)

\* Two expenses of complete months fail the bounds of the rule that a third
\* expense of their payee matches; the pattern detector would report them.
C28_Witness ==
    /\ pc = "merged"
    /\ Len(subscriptions) = 1
    /\ Len(subscriptions[1].Transactions) = 1
    /\ \E tx \in Range(transactions) :
           /\ TextMatchedByRule(tx)
           /\ ~MatchedByRule(tx)
           /\ \E l \in DetectSubscriptions(
                            FilterToCompleteMonths(transactions, completeMonths),
                            transactions, dateRange, tolerance) :
                  \E s \in 1..Len(l) : tx \in Range(l[s].Transactions)

\* C29: every list DetectSubscriptions or SuggestGroups hands to
\* AmountsWithinTolerance holds strictly negative amounts only, so that no
\* ratio is computed with a previous amount of zero.
C29_NoZeroPreviousAmount ==
    /\ pc = "detected" =>
           \A l \in ToleranceArgumentsDetect(filtered, regularTxs) :
               \A i \in 1..Len(l) : l[i].Amount < 0
    /\ pc = "suggested" =>
           \A l \in result[3] : \A i \in 1..Len(l) : l[i].Amount < 0

\* Both entry points have called AmountsWithinTolerance on a payee (a group)
\* for which the input holds a transaction of amount zero as well.
C29_Witness ==
    /\ pc = "suggested"
    /\ \E l \in ToleranceArgumentsDetect(filtered, regularTxs) :
           \E tx \in Range(transactions) :
               tx.Amount = 0 /\ tx.Text = l[1].Text
    /\ \E l \in result[3] :
           \E tx \in Range(transactions) :
               /\ tx.Amount = 0
               /\ Fields(tx.Text)[1] = Fields(l[1].Text)[1]

\* C30: after each of DetectKnownSubscriptions, FilterOutMatched,
\* FilterToCompleteMonths, DetectSubscriptions and SuggestGroups has
\* returned, the lists of the caller hold what they held before: the loaded
\* list its transactions in their order, and the two filtered lists what
\* the filters returned.
C30_InputsUnchanged ==
    /\ result.heap[result.txs] = transactions
    /\ pc \in {"regular", "complete", "detected", "merged", "suggested"} =>
           result.heap[result.regular] = regularTxs
    /\ pc \in {"complete", "detected", "merged", "suggested"} =>
           result.heap[result.complete] = filtered

\* The detectors and SuggestGroups have sorted lists of their own while the
\* caller's list, which regularTxs shares, is not in date order: a
\* subscription and a suggestion are reported.
C30_Witness ==
    /\ pc = "suggested"
    /\ result.regular = result.txs
    /\ Len(subscriptions) = 1
    /\ Len(result.suggestions) = 1
    /\ \E i, j \in 1..Len(transactions) :
           i < j /\ Before(transactions[j].Date, transactions[i].Date)
    /\ \E k \in 1..Len(result.heap) :
           /\ Len(result.heap[k]) = Len(transactions)
           /\ result.heap[k] # transactions
           /\ result.heap[k] \in SortByDate(transactions)

====
